---- MODULE Spec2Model ----
(***************************************************************************)
(* A model of the figlet-go library (package figlet): the Config object,   *)
(* font and control-file loading, the character mapping, the smush/compose *)
(* engine and the line formatter of RenderString.                          *)
(*                                                                         *)
(* Runes and bytes are integers (their code points).  A row of a glyph or  *)
(* of the output line is a sequence of runes; Go's 0-based index i is the  *)
(* sequence index i+1.  The rendered output is the sequence of the rows    *)
(* written by putstring, each of which the code ends with "\n" (rows never *)
(* contain a newline themselves: font rows are read line by line).         *)
(***************************************************************************)
EXTENDS Integers, Sequences, FiniteSets, TLC

VARIABLES
    cfg,                \* the Config object (all the fields the library uses)
    pc,                 \* "idle", or "render" while RenderString is in its loop
    wordbreakmode,      \* local of RenderString
    last_was_eol_flag,  \* local of RenderString
    loaderr,            \* what the last LoadFont call returned ("" is nil)
    applied,            \* history: the control files readcontrol has read
    loaded,             \* history: the Config as the last LoadFont call left it
    calls               \* history: how many LoadFont / RenderString calls

vars == <<cfg, pc, wordbreakmode, last_was_eol_flag, loaderr, applied, loaded, calls>>

----------------------------------------------------------------------------
(* Program constants *)

DEFAULTCOLUMNS == 80
MAXLEN == 255
SM_SMUSH == 128
SM_KERN == 64
SM_EQUAL == 1
SM_LOWLINE == 2
SM_HIERARCHY == 4
SM_PAIR == 8
SM_BIGX == 16
SM_HARDBLANK == 32
SMO_NO == 0
SMO_YES == 1
SMO_FORCE == 2

deutsch == <<196, 214, 220, 228, 246, 252, 223>>

----------------------------------------------------------------------------
(* Small helpers for Go's slices, bytes and bit operations *)

\* s[n:] of a Go slice
SliceFrom(s, n) == SubSeq(s, n + 1, Len(s))

\* s[:n] of a Go slice
SliceTo(s, n) == SubSeq(s, 1, n)

\* m & b # 0 for a single bit b (a power of two) and m >= 0
HasBit(m, b) == (m \div b) % 2 = 1

\* isASCII
isASCII(r) == r >= 0 /\ r <= 127

\* a white-space test that takes every control character for white space
IsSpaceOrControl(r) == r \in (1..32) \cup {133, 160}

\* unicode.IsSpace restricted to the Latin-1 range
IsSpace(r) == r \in {9, 10, 11, 12, 13, 32, 133, 160}

\* the read outline[i] of a row with C's terminating 0 past its end
RowAt(row, i) == IF i >= 0 /\ i < Len(row) THEN row[i + 1] ELSE 0

----------------------------------------------------------------------------
(* The compose engine: getletter, smushem, smushamt, addchar *)

\* the for loop of getletter: the first node of the list whose ord is c, 0 if none
FindOrd(list, c) ==
    LET hits == {i \in 1..Len(list) : list[i].ord = c}
    IN IF hits = {} THEN 0 ELSE CHOOSE i \in hits : \A j \in hits : i <= j

getletter(c, ch) ==
    LET hit == FindOrd(c.fcharlist, ch)
        node == IF hit # 0 THEN c.fcharlist[hit]
                ELSE c.fcharlist[FindOrd(c.fcharlist, 0)]
        w == IF Len(node.thechar) > 0 /\ Len(node.thechar[1]) > 0
             THEN Len(node.thechar[1]) ELSE 0
    IN [c EXCEPT !.currchar = node.thechar,
                 !.previouscharwidth = c.currcharwidth,
                 !.currcharwidth = w]

LowlinePartners == {124, 47, 92, 91, 93, 123, 125, 40, 41, 60, 62}  \* "|/\\[]{}()<>"
Tier2 == {47, 92}                                              \* "/\\"
Tier3 == {91, 93}                                              \* "[]"
Tier4 == {123, 125}                                            \* "{}"
Tier5 == {40, 41}                                              \* "()"
Tier6 == {60, 62}                                              \* "<>"

\* the hierarchy rule with its first tier only
smushemHierarchyBarOnly(lch, rch) ==
    IF lch = 124 /\ rch \in (Tier2 \cup Tier3 \cup Tier4 \cup Tier5 \cup Tier6) THEN rch
    ELSE IF rch = 124 /\ lch \in (Tier2 \cup Tier3 \cup Tier4 \cup Tier5 \cup Tier6) THEN lch
    ELSE 0

\* the hierarchy rule of smushem (0 when it does not apply)
smushemHierarchy(lch, rch) ==
    IF lch = 124 /\ rch \in (Tier2 \cup Tier3 \cup Tier4 \cup Tier5 \cup Tier6) THEN rch
    ELSE IF rch = 124 /\ lch \in (Tier2 \cup Tier3 \cup Tier4 \cup Tier5 \cup Tier6) THEN lch
    ELSE IF lch \in Tier2 /\ rch \in (Tier3 \cup Tier4 \cup Tier5 \cup Tier6) THEN rch
    ELSE IF rch \in Tier2 /\ lch \in (Tier3 \cup Tier4 \cup Tier5 \cup Tier6) THEN lch
    ELSE IF lch \in Tier3 /\ rch \in (Tier4 \cup Tier5 \cup Tier6) THEN rch
    ELSE IF rch \in Tier3 /\ lch \in (Tier4 \cup Tier5 \cup Tier6) THEN lch
    ELSE IF lch \in Tier4 /\ rch \in (Tier5 \cup Tier6) THEN rch
    ELSE IF rch \in Tier4 /\ lch \in (Tier5 \cup Tier6) THEN lch
    ELSE IF lch \in Tier5 /\ rch \in Tier6 THEN rch
    ELSE IF rch \in Tier5 /\ lch \in Tier6 THEN lch
    ELSE 0

\* the bracket-pair rule of smushem (0 when it does not apply)
smushemPair(lch, rch) ==
    IF \/ (lch = 91 /\ rch = 93) \/ (rch = 91 /\ lch = 93)
       \/ (lch = 123 /\ rch = 125) \/ (rch = 123 /\ lch = 125)
       \/ (lch = 40 /\ rch = 41) \/ (rch = 40 /\ lch = 41)
    THEN 124 ELSE 0

\* the big-X rule of smushem (0 when it does not apply)
smushemBigX(lch, rch) ==
    IF lch = 47 /\ rch = 92 THEN 124
    ELSE IF rch = 47 /\ lch = 92 THEN 89
    ELSE IF lch = 62 /\ rch = 60 THEN 88
    ELSE 0

\* the rule part of smushem, reached when some rule bit is set
smushemRules(c, lch, rch) ==
    IF HasBit(c.Smushmode, SM_HARDBLANK) /\ lch = c.hardblank /\ rch = c.hardblank
    THEN lch
    ELSE IF lch = c.hardblank \/ rch = c.hardblank THEN 0
    ELSE IF HasBit(c.Smushmode, SM_EQUAL) /\ lch = rch THEN lch
    ELSE IF HasBit(c.Smushmode, SM_LOWLINE) /\ lch = 95 /\ rch \in LowlinePartners
    THEN rch
    ELSE IF HasBit(c.Smushmode, SM_LOWLINE) /\ rch = 95 /\ lch \in LowlinePartners
    THEN lch
    ELSE IF HasBit(c.Smushmode, SM_HIERARCHY) /\ smushemHierarchy(lch, rch) # 0
    THEN smushemHierarchy(lch, rch)
    ELSE IF HasBit(c.Smushmode, SM_PAIR) /\ smushemPair(lch, rch) # 0
    THEN smushemPair(lch, rch)
    ELSE IF HasBit(c.Smushmode, SM_BIGX) /\ smushemBigX(lch, rch) # 0
    THEN smushemBigX(lch, rch)
    ELSE 0

\* universal smushing in which the hard-blank wins over every character
smushemUniversalHardblankWins(c, lch, rch) ==
    IF lch = 32 THEN rch
    ELSE IF rch = 32 THEN lch
    ELSE IF lch = c.hardblank \/ rch = c.hardblank THEN c.hardblank
    ELSE IF c.Right2left = 1 THEN lch
    ELSE rch

\* the universal-smushing part of smushem, reached when no rule bit is set
smushemUniversal(c, lch, rch) ==
    IF lch = 32 THEN rch
    ELSE IF rch = 32 THEN lch
    ELSE IF lch = c.hardblank THEN rch
    ELSE IF rch = c.hardblank THEN lch
    ELSE IF c.Right2left = 1 THEN lch
    ELSE rch

\* smushem without the test of the merge bit that kerning rests on
smushemAnyMode(c, lch, rch) ==
    IF lch = 32 THEN rch
    ELSE IF rch = 32 THEN lch
    ELSE IF c.previouscharwidth < 2 \/ c.currcharwidth < 2 THEN 0
    ELSE IF c.Smushmode % 64 = 0 THEN smushemUniversal(c, lch, rch)
    ELSE smushemRules(c, lch, rch)

\* smushem taking the rule bits as Smushmode & 31, the mask of the old font layout
smushemMask31(c, lch, rch) ==
    IF lch = 32 THEN rch
    ELSE IF rch = 32 THEN lch
    ELSE IF c.previouscharwidth < 2 \/ c.currcharwidth < 2 THEN 0
    ELSE IF ~HasBit(c.Smushmode, SM_SMUSH) THEN 0
    ELSE IF c.Smushmode % 32 = 0 THEN smushemUniversal(c, lch, rch)
    ELSE smushemRules(c, lch, rch)

smushem(c, lch, rch) ==
    IF lch = 32 THEN rch
    ELSE IF rch = 32 THEN lch
    ELSE IF c.previouscharwidth < 2 \/ c.currcharwidth < 2 THEN 0
    ELSE IF ~HasBit(c.Smushmode, SM_SMUSH) THEN 0
    ELSE IF c.Smushmode % 64 = 0 THEN smushemUniversal(c, lch, rch)
    ELSE smushemRules(c, lch, rch)

RECURSIVE ScanBack(_, _)
\* for (bd = len; ch = row[bd], (bd > 0 && (!ch || ch == ' ')); bd--)
ScanBack(row, bd) ==
    IF bd > 0 /\ RowAt(row, bd) \in {0, 32} THEN ScanBack(row, bd - 1) ELSE bd

RECURSIVE ScanFwd(_, _)
\* for (bd = 0; ch = row[bd], ch == ' '; bd++)
ScanFwd(row, bd) ==
    IF RowAt(row, bd) = 32 THEN ScanFwd(row, bd + 1) ELSE bd

\* the body of smushamt's loop: the amount one row allows
rowamt(c, row) ==
    IF c.Right2left = 1
    THEN LET charbd == ScanBack(c.currchar[row], Len(c.currchar[row]))
             ch1 == RowAt(c.currchar[row], charbd)
             linebd == ScanFwd(c.outputline[row], 0)
             ch2 == RowAt(c.outputline[row], linebd)
             amt == linebd + c.currcharwidth - 1 - charbd
         IN IF ch1 = 0 \/ ch1 = 32 THEN amt + 1
            ELSE IF ch2 # 0 /\ smushem(c, ch1, ch2) # 0 THEN amt + 1
            ELSE amt
    ELSE LET linebd == ScanBack(c.outputline[row], Len(c.outputline[row]))
             ch1 == RowAt(c.outputline[row], linebd)
             charbd == ScanFwd(c.currchar[row], 0)
             ch2 == RowAt(c.currchar[row], charbd)
             amt == charbd + c.outlinelen - 1 - linebd
         IN IF ch1 = 0 \/ ch1 = 32 THEN amt + 1
            ELSE IF ch2 # 0 /\ smushem(c, ch1, ch2) # 0 THEN amt + 1
            ELSE amt

\* smushamt's loop stopping after the row it starts with
smushamtFirstRow(c, row, maxsmush) ==
    LET Min(amt) == IF amt < maxsmush THEN amt ELSE maxsmush
    IN Min(rowamt(c, row))

RECURSIVE smushamtRows(_, _, _)
smushamtRows(c, row, maxsmush) ==
    IF row > c.charheight THEN maxsmush
    ELSE LET Min(amt) == IF amt < maxsmush THEN amt ELSE maxsmush
         IN smushamtRows(c, row + 1, Min(rowamt(c, row)))

\* smushamt without the test of the mode bits that full width rests on
smushamtAnyMode(c) == smushamtRows(c, 1, c.currcharwidth)

\* smushamt taking kerning for full width
smushamtKernless(c) ==
    IF ~HasBit(c.Smushmode, SM_SMUSH) THEN 0
    ELSE smushamtRows(c, 1, c.currcharwidth)

smushamt(c) ==
    IF ~HasBit(c.Smushmode, SM_SMUSH) /\ ~HasBit(c.Smushmode, SM_KERN) THEN 0
    ELSE smushamtRows(c, 1, c.currcharwidth)

\* an amount one column beyond the one smushamt allows
smushamountOneMore(c) ==
    LET Clamp(raw) == IF raw < 0 THEN 0
                      ELSE IF raw > c.currcharwidth THEN c.currcharwidth
                      ELSE raw
    IN Clamp(smushamt(c) + 1)

\* smushamt's result as addchar clamps it
smushamount(c) ==
    LET Clamp(raw) == IF raw < 0 THEN 0
                      ELSE IF raw > c.currcharwidth THEN c.currcharwidth
                      ELSE raw
    IN Clamp(smushamt(c))

RECURSIVE MergeLTR(_, _, _, _, _)
\* addchar's loop over the smushed columns, left-to-right
MergeLTR(c, line, glyph, amount, k) ==
    IF k >= amount THEN line
    ELSE LET col0 == c.outlinelen - amount + k
             column == IF col0 < 0 THEN 0 ELSE col0
         IN IF column < Len(line) /\ k < Len(glyph)
            THEN MergeLTR(c,
                          [line EXCEPT ![column + 1] =
                               smushem(c, line[column + 1], glyph[k + 1])],
                          glyph, amount, k + 1)
            ELSE MergeLTR(c, line, glyph, amount, k + 1)

RECURSIVE MergeRTL(_, _, _, _, _)
\* addchar's loop over the smushed columns, right-to-left
MergeRTL(c, templine, line, amount, k) ==
    IF ~(k < amount /\ k < Len(line)) THEN templine
    ELSE LET idx == c.currcharwidth - amount + k
         IN IF idx >= 0 /\ idx < Len(templine)
            THEN LET Put(smushed) == IF smushed # 0
                                     THEN [templine EXCEPT ![idx + 1] = smushed]
                                     ELSE templine
                 IN MergeRTL(c, Put(smushem(c, templine[idx + 1], line[k + 1])),
                             line, amount, k + 1)
            ELSE MergeRTL(c, templine, line, amount, k + 1)

\* one row of the output line after addchar
addrow(c, row, amount) ==
    IF c.Right2left = 1
    THEN LET Rest(templine) == IF amount < Len(c.outputline[row])
                               THEN templine \o SliceFrom(c.outputline[row], amount)
                               ELSE templine
         IN Rest(MergeRTL(c, c.currchar[row], c.outputline[row], amount, 0))
    ELSE LET Rest(line) == IF amount < Len(c.currchar[row])
                           THEN line \o SliceFrom(c.currchar[row], amount)
                           ELSE line
         IN Rest(MergeLTR(c, c.outputline[row], c.currchar[row], amount, 0))

\* addchar: [ok |-> its result, cfg |-> the Config afterwards]
addchar(c0, ch) ==
    LET Added(c, newline) ==
            [c EXCEPT !.outputline = newline,
                      !.outlinelen = IF Len(newline[1]) > 0 THEN Len(newline[1])
                                     ELSE c.outlinelen,
                      !.inchrline = Append(c.inchrline, ch),
                      !.inchrlinelen = c.inchrlinelen + 1]
        Smushed(c, amount) ==
            IF \/ c.outlinelen + c.currcharwidth - amount > c.outlinelenlimit
               \/ c.inchrlinelen + 1 > c.inchrlinelenlimit
            THEN [ok |-> FALSE, cfg |-> c]
            ELSE [ok |-> TRUE,
                  cfg |-> Added(c, [row \in 1..c.charheight |-> addrow(c, row, amount)])]
        Letter(c) == Smushed(c, smushamount(c))
    IN Letter(getletter(c0, ch))

----------------------------------------------------------------------------
(* The line formatter: putstring, clearline, printline, splitline *)

\* a clearline that empties the rows and leaves the recorded lengths as they are
clearlineKeepingLength(c) == [c EXCEPT !.outputline = [row \in 1..c.charheight |-> <<>>]]

clearline(c) ==
    [c EXCEPT !.outputline = [row \in 1..c.charheight |-> <<>>],
              !.outlinelen = 0,
              !.inchrline = <<>>,
              !.inchrlinelen = 0]

\* putstring's padding loop with <= for < in its condition
padcountInclusive(c, length) ==
    Cardinality({i \in 1..c.Outputwidth :
                    (3 - c.Justification) * i + length + c.Justification - 2
                        <= c.Outputwidth})

\* putstring's padding loop, for i = 1, 2, ... while the condition holds: how many
\* spaces it writes (the condition fails from some i on: Justification is 1 or 2)
padcount(c, length) ==
    Cardinality({i \in 1..c.Outputwidth :
                    (3 - c.Justification) * i + length + c.Justification - 2
                        < c.Outputwidth})

\* putstring without the clip of the row to the output width: what the width bound
\* of the output rests on
putstringUnclipped(c, str) ==
    LET length == Len(str)
        pad == IF c.Outputwidth > 1 /\ c.Justification > 0
               THEN padcount(c, length) ELSE 0
        text == [i \in 1..length |-> IF str[i] = c.hardblank THEN 32 ELSE str[i]]
    IN [c EXCEPT !.output = Append(c.output, [i \in 1..pad |-> 32] \o text)]

\* putstring writing every character of the row as it is
putstringRaw(c, str) ==
    LET length == IF c.Outputwidth > 1 /\ Len(str) > c.Outputwidth - 1
                  THEN c.Outputwidth - 1 ELSE Len(str)
        pad == IF c.Outputwidth > 1 /\ c.Justification > 0
               THEN padcount(c, length) ELSE 0
    IN [c EXCEPT !.output = Append(c.output, [i \in 1..pad |-> 32] \o SliceTo(str, length))]

putstring(c, str) ==
    LET length == IF c.Outputwidth > 1 /\ Len(str) > c.Outputwidth - 1
                  THEN c.Outputwidth - 1 ELSE Len(str)
        pad == IF c.Outputwidth > 1 /\ c.Justification > 0
               THEN padcount(c, length) ELSE 0
        text == [i \in 1..length |-> IF str[i] = c.hardblank THEN 32 ELSE str[i]]
    IN [c EXCEPT !.output = Append(c.output, [i \in 1..pad |-> 32] \o text)]

RECURSIVE putrows(_, _, _)
\* putstring for each row of rows, from row i on
putrows(c, rows, i) ==
    IF i > Len(rows) THEN c ELSE putrows(putstring(c, rows[i]), rows, i + 1)

printline(c) == clearline(putrows(c, c.outputline, 1))

\* a scan that stops at the last space itself, so that the spaces before it stay
\* in the first part
splitscanAtLastSpace(line, i, gotspace, lastspace) ==
    LET sp == {k \in 0..i : line[k + 1] = 32}
    IN IF sp = {} THEN [i |-> -1, lastspace |-> lastspace]
       ELSE LET last == CHOOSE k \in sp : \A m \in sp : m <= k
            IN [i |-> last - 1, lastspace |-> last]

RECURSIVE splitscan(_, _, _, _)
\* splitline's backward scan: [i, lastspace] when it ends
splitscan(line, i, gotspace, lastspace) ==
    IF i < 0 THEN [i |-> i, lastspace |-> lastspace]
    ELSE LET got == gotspace \/ line[i + 1] = 32
             ls == IF ~gotspace /\ line[i + 1] = 32 THEN i ELSE lastspace
         IN IF got /\ line[i + 1] # 32
            THEN [i |-> i, lastspace |-> ls]
            ELSE splitscan(line, i - 1, got, ls)

RECURSIVE addchars(_, _, _)
\* splitline's loops: addchar for each character of part, results ignored
addchars(c, part, i) ==
    IF i > Len(part) THEN c ELSE addchars(addchar(c, part[i]).cfg, part, i + 1)

\* a splitline that flushes the whole line and keeps nothing
splitlineFlushingAll(c) == printline(c)

splitline(c) ==
    LET s == splitscan(c.inchrline, c.inchrlinelen - 1, FALSE, c.inchrlinelen - 1)
        len1 == s.i + 1
        part1 == SliceTo(c.inchrline, len1)
        part2 == SliceFrom(c.inchrline, s.lastspace + 1)
    IN addchars(printline(addchars(clearline(c), part1, 1)), part2, 1)

----------------------------------------------------------------------------
(* The input decoder: Agetchar, iso2022, getinchr, ungetinchr *)

RECURSIVE OrInt(_, _)
\* a | b on two's-complement integers
OrInt(a, b) ==
    IF a = 0 THEN b
    ELSE IF b = 0 THEN a
    ELSE IF a = -1 \/ b = -1 THEN -1
    ELSE (IF a % 2 = 1 \/ b % 2 = 1 THEN 1 ELSE 0) + 2 * OrInt(a \div 2, b \div 2)

\* ungetinchr losing the character it is given
ungetinchrDropped(c, ch) == c

ungetinchr(c, ch) == [c EXCEPT !.getinchr_buffer = ch, !.getinchr_flag = TRUE]

\* Agetchar with Cmdinput set: [ch |-> the byte or -1, cfg |-> the Config afterwards]
Agetchar(c) ==
    IF c.getinchr_flag
    THEN [ch |-> c.getinchr_buffer, cfg |-> [c EXCEPT !.getinchr_flag = FALSE]]
    ELSE IF c.agetmode < 0 \/ c.Optind >= Len(c.Argv)
    THEN [ch |-> -1, cfg |-> c]
    ELSE LET arg == c.Argv[c.Optind + 1]
             b == IF c.agetmode < Len(arg) THEN arg[c.agetmode + 1] % 256 ELSE 0
         IN IF b # 0
            THEN [ch |-> b, cfg |-> [c EXCEPT !.agetmode = c.agetmode + 1]]
            ELSE IF c.Optind + 1 >= Len(c.Argv)
            THEN [ch |-> -1,
                  cfg |-> [c EXCEPT !.agetmode = -1, !.Optind = c.Optind + 1]]
            ELSE [ch |-> IF c.agetmode + 1 = 1 THEN 10 ELSE 32,
                  cfg |-> [c EXCEPT !.agetmode = 0, !.Optind = c.Optind + 1]]

\* iso2022's designation cases: gn[n] = (ch << 16) | low with ch the next byte,
\* taken as 0 when it is final (no byte is -2: the double-byte cases replace none)
designate(c, n, final, low, dbl) ==
    LET a == Agetchar(c)
        ch == IF a.ch = final THEN 0 ELSE a.ch
    IN [a.cfg EXCEPT !.gn[n + 1] = OrInt(ch * 65536, low), !.gndbl[n + 1] = dbl]

RECURSIVE iso2022(_)
iso2022(c) ==
    LET Plus(n, k) == [ch |-> n.ch + k, cfg |-> n.cfg]
        Low(hi, n) == [ch |-> OrInt(hi, n.ch), cfg |-> n.cfg]
        Restore(r, d) == [ch |-> r.ch, cfg |-> [r.cfg EXCEPT !.gl = d.gl, !.gr = d.gr]]
        Dispatch(ch, d) ==
            CASE ch = 14 -> iso2022([d EXCEPT !.gl = 1])
              [] ch = 15 -> iso2022([d EXCEPT !.gl = 0])
              [] ch \in {142, 78 + 256} ->
                    Restore(iso2022([d EXCEPT !.gl = 2, !.gr = 2]), d)
              [] ch \in {143, 79 + 256} ->
                    Restore(iso2022([d EXCEPT !.gl = 3, !.gr = 3]), d)
              [] ch = 110 + 256 -> iso2022([d EXCEPT !.gl = 2])
              [] ch = 111 + 256 -> iso2022([d EXCEPT !.gl = 3])
              [] ch = 126 + 256 -> iso2022([d EXCEPT !.gr = 1])
              [] ch = 125 + 256 -> iso2022([d EXCEPT !.gr = 2])
              [] ch = 124 + 256 -> iso2022([d EXCEPT !.gr = 3])
              [] ch = 40 + 256 -> iso2022(designate(d, 0, 66, 0, FALSE))
              [] ch = 41 + 256 -> iso2022(designate(d, 1, 66, 0, FALSE))
              [] ch = 42 + 256 -> iso2022(designate(d, 2, 66, 0, FALSE))
              [] ch = 43 + 256 -> iso2022(designate(d, 3, 66, 0, FALSE))
              [] ch = 45 + 256 -> iso2022(designate(d, 1, 65, 128, FALSE))
              [] ch = 46 + 256 -> iso2022(designate(d, 2, 65, 128, FALSE))
              [] ch = 47 + 256 -> iso2022(designate(d, 3, 65, 128, FALSE))
              [] ch = 40 + 512 -> iso2022(designate(d, 0, -2, 0, TRUE))
              [] ch = 41 + 512 -> iso2022(designate(d, 1, -2, 0, TRUE))
              [] ch = 42 + 512 -> iso2022(designate(d, 2, -2, 0, TRUE))
              [] ch = 43 + 512 -> iso2022(designate(d, 3, -2, 0, TRUE))
              [] OTHER ->
                    IF ch >= 33 /\ ch <= 126
                    THEN IF d.gndbl[d.gl + 1]
                         THEN Low(OrInt(d.gn[d.gl + 1], ch * 256), Agetchar(d))
                         ELSE [ch |-> OrInt(d.gn[d.gl + 1], ch), cfg |-> d]
                    ELSE IF ch >= 160 /\ ch <= 255
                    THEN IF d.gndbl[d.gr + 1]
                         THEN Low(OrInt(d.gn[d.gr + 1], ch * 256), Agetchar(d))
                         ELSE [ch |-> OrInt(d.gn[d.gr + 1], ch - 128), cfg |-> d]
                    ELSE [ch |-> ch, cfg |-> d]
        Char(a2) == Dispatch(a2.ch, a2.cfg)
        Second(a1) == Char(IF a1.ch = 256 + 36 THEN Plus(Agetchar(a1.cfg), 512) ELSE a1)
        First(a0) == IF a0.ch = -1 THEN a0
                     ELSE Second(IF a0.ch = 27 THEN Plus(Agetchar(a0.cfg), 256) ELSE a0)
    IN First(Agetchar(c))

\* getinchr's DBCS and Shift-JIS cases
getdbcs(c) ==
    LET a == Agetchar(c)
    IN IF (a.ch >= 128 /\ a.ch <= 159) \/ (a.ch >= 224 /\ a.ch <= 239)
       THEN LET n == Agetchar(a.cfg) IN [ch |-> a.ch * 256 + n.ch, cfg |-> n.cfg]
       ELSE a

\* getinchr's UTF-8 case
getutf8(c) ==
    LET a == Agetchar(c)
        n2 == Agetchar(a.cfg)
        n3 == Agetchar(n2.cfg)
        n4 == Agetchar(n3.cfg)
        n5 == Agetchar(n4.cfg)
        n6 == Agetchar(n5.cfg)
        ch == a.ch
        ch2 == n2.ch % 64
        ch3 == n3.ch % 64
        ch4 == n4.ch % 64
        ch5 == n5.ch % 64
        ch6 == n6.ch % 64
    IN IF ch < 128 THEN a
       ELSE IF ch < 192 \/ ch > 253 THEN [ch |-> 128, cfg |-> a.cfg]
       ELSE IF ch < 224 THEN [ch |-> (ch % 32) * 64 + ch2, cfg |-> n2.cfg]
       ELSE IF ch < 240
       THEN [ch |-> (ch % 16) * 4096 + ch2 * 64 + ch3, cfg |-> n3.cfg]
       ELSE IF ch < 248
       THEN [ch |-> (ch % 8) * 262144 + ch2 * 4096 + ch3 * 64 + ch4, cfg |-> n4.cfg]
       ELSE IF ch < 252
       THEN [ch |-> (ch % 4) * 16777216 + ch2 * 262144 + ch3 * 4096 + ch4 * 64 + ch5,
             cfg |-> n5.cfg]
       ELSE [ch |-> (ch % 2) * 1073741824 + ch2 * 16777216 + ch3 * 262144
                    + ch4 * 4096 + ch5 * 64 + ch6,
             cfg |-> n6.cfg]

RECURSIVE gethz(_)
\* getinchr's HZ case
gethz(c) ==
    LET a == Agetchar(c)
        n == Agetchar(a.cfg)
    IN IF a.ch = -1 THEN a
       ELSE IF a.cfg.hzmode
       THEN IF a.ch * 256 + n.ch = 125 * 256 + 126
            THEN gethz([n.cfg EXCEPT !.hzmode = FALSE])
            ELSE [ch |-> a.ch * 256 + n.ch, cfg |-> n.cfg]
       ELSE IF a.ch = 126
       THEN IF n.ch = 123 THEN gethz([n.cfg EXCEPT !.hzmode = TRUE])
            ELSE IF n.ch = 126 THEN [ch |-> a.ch, cfg |-> n.cfg]
            ELSE gethz(n.cfg)
       ELSE a

getinchr(c) ==
    IF c.getinchr_flag
    THEN [ch |-> c.getinchr_buffer, cfg |-> [c EXCEPT !.getinchr_flag = FALSE]]
    ELSE CASE c.Multibyte = 0 -> iso2022(c)
           [] c.Multibyte = 1 -> getdbcs(c)
           [] c.Multibyte = 2 -> getutf8(c)
           [] c.Multibyte = 3 -> gethz(c)
           [] c.Multibyte = 4 -> getdbcs(c)
           [] OTHER -> [ch |-> 128, cfg |-> c]

----------------------------------------------------------------------------
(* The control mapping: handlemapping *)

\* handlemapping's inner loop going on to the next command only
nextfreezeNextCommand(list, i) == i + 1

RECURSIVE nextfreeze(_, _)
\* handlemapping's inner loop: the first freeze command from i on
nextfreeze(list, i) ==
    IF i <= Len(list) /\ list[i].thecommand # 0 THEN nextfreeze(list, i + 1) ELSE i

RECURSIVE mapfrom(_, _, _)
\* handlemapping's outer loop from the command at i
mapfrom(list, i, ch) ==
    IF i > Len(list) THEN ch
    ELSE IF list[i].thecommand # 0
    THEN IF ch >= list[i].rangelo /\ ch <= list[i].rangehi
         THEN mapfrom(list, nextfreeze(list, i), ch + list[i].offset)
         ELSE mapfrom(list, i + 1, ch)
    ELSE mapfrom(list, i + 1, ch)

handlemapping(c, ch) ==
    IF c.commandlist = <<>> THEN ch ELSE mapfrom(c.commandlist, 1, ch)

----------------------------------------------------------------------------
(* Reading a control file: Zgetc, Zungetc, skipws, skiptoeol, readnum,     *)
(* readTchar, charset, readcontrol.  A file is the sequence of its bytes   *)
(* and pos the read position (ZFILE.pos; files are shorter than a buffer). *)

Zgetc(bytes, pos) ==
    IF pos < Len(bytes) THEN [ch |-> bytes[pos + 1], pos |-> pos + 1]
    ELSE [ch |-> -1, pos |-> pos]

Zungetc(pos) == IF pos > 0 THEN pos - 1 ELSE pos

RECURSIVE skipws(_, _)
skipws(bytes, pos) ==
    LET g == Zgetc(bytes, pos)
    IN IF g.ch = -1 THEN g.pos
       ELSE IF g.ch \in {32, 9, 10, 13} THEN skipws(bytes, g.pos)
       ELSE Zungetc(g.pos)

RECURSIVE skiptoeol(_, _)
skiptoeol(bytes, pos) ==
    LET g == Zgetc(bytes, pos)
    IN IF g.ch = -1 \/ g.ch = 10 THEN g.pos
       ELSE IF g.ch = 13
       THEN LET g2 == Zgetc(bytes, g.pos)
            IN IF g2.ch # -1 /\ g2.ch # 10 THEN Zungetc(g2.pos) ELSE g2.pos
       ELSE skiptoeol(bytes, g.pos)

\* readnum's digit value of byte b in the given base, -1 if none
digitof(b, base) ==
    IF b >= 48 /\ b <= 57 THEN b - 48
    ELSE IF base = 16 /\ b >= 97 /\ b <= 102 THEN b - 97 + 10
    ELSE IF base = 16 /\ b >= 65 /\ b <= 70 THEN b - 65 + 10
    ELSE -1

RECURSIVE readdigits(_, _, _, _)
\* readnum's accumulation loop: [val |-> acc, pos]
readdigits(bytes, pos, base, acc) ==
    LET g == Zgetc(bytes, pos)
        digit == digitof(g.ch, base)
    IN IF g.ch = -1 THEN [val |-> acc, pos |-> g.pos]
       ELSE IF digit < 0 \/ digit >= base THEN [val |-> acc, pos |-> Zungetc(g.pos)]
       ELSE readdigits(bytes, g.pos, base, acc * base + digit)

\* readnum: [val, pos, err]; err is io.EOF, returned when no character follows
readnum(bytes, pos0) ==
    LET Value(neg, r) ==
            [val |-> IF neg THEN 0 - r.val ELSE r.val, pos |-> r.pos, err |-> FALSE]
        Based(neg, g, g2) ==
            LET base == IF g.ch = 48 THEN (IF g2.ch \in {120, 88} THEN 16 ELSE 8) ELSE 10
                start == IF g.ch = 48
                         THEN (IF g2.ch \in {120, 88} THEN g2.pos ELSE Zungetc(g2.pos))
                         ELSE Zungetc(g.pos)
            IN IF g.ch = -1 THEN [val |-> 0, pos |-> g.pos, err |-> TRUE]
               ELSE Value(neg, readdigits(bytes, start, base, 0))
        Signed(neg, g) == Based(neg, g, Zgetc(bytes, g.pos))
        First(g0) == Signed(g0.ch = 45, IF g0.ch = 45 THEN Zgetc(bytes, g0.pos) ELSE g0)
    IN First(Zgetc(bytes, skipws(bytes, pos0)))

\* readTchar: [val, pos]
readTchar(bytes, pos) ==
    LET Numbered(n, num) ==
            IF ~num.err THEN [val |-> num.val, pos |-> num.pos]
            ELSE [val |-> n.ch, pos |-> num.pos]
        Escaped(n) ==
            IF n.ch = -1 THEN [val |-> 92, pos |-> n.pos]
            ELSE CASE n.ch = 97 -> [val |-> 7, pos |-> n.pos]
                   [] n.ch = 98 -> [val |-> 8, pos |-> n.pos]
                   [] n.ch = 101 -> [val |-> 27, pos |-> n.pos]
                   [] n.ch = 102 -> [val |-> 12, pos |-> n.pos]
                   [] n.ch = 110 -> [val |-> 10, pos |-> n.pos]
                   [] n.ch = 114 -> [val |-> 13, pos |-> n.pos]
                   [] n.ch = 116 -> [val |-> 9, pos |-> n.pos]
                   [] n.ch = 118 -> [val |-> 11, pos |-> n.pos]
                   [] OTHER ->
                         IF n.ch = 45 \/ n.ch = 120 \/ (n.ch >= 48 /\ n.ch <= 57)
                         THEN Numbered(n, readnum(bytes, Zungetc(n.pos)))
                         ELSE [val |-> n.ch, pos |-> n.pos]
        Char(g) ==
            IF g.ch = -1 THEN [val |-> 0, pos |-> g.pos]
            ELSE IF g.ch \in {10, 13} THEN [val |-> 0, pos |-> Zungetc(g.pos)]
            ELSE IF g.ch # 92 THEN [val |-> g.ch, pos |-> g.pos]
            ELSE Escaped(Zgetc(bytes, g.pos))
    IN Char(Zgetc(bytes, pos))

\* charsetname: [val, pos]
charsetname(bytes, pos) ==
    LET Name(r) == IF r.val = 10 \/ r.val = 13 THEN [val |-> 0, pos |-> Zungetc(r.pos)]
                   ELSE r
    IN Name(readTchar(bytes, pos))

\* charset: [cfg, pos]
charset(c, n, bytes, pos0) ==
    LET Skip(g) == [cfg |-> c, pos |-> skiptoeol(bytes, g.pos)]
        Set96(n96) ==
            [cfg |-> [c EXCEPT !.gn[n + 1] = 65536 * n96.val + 128,
                               !.gndbl[n + 1] = FALSE],
             pos |-> skiptoeol(bytes, n96.pos)]
        Set94x94(n94x94) ==
            [cfg |-> [c EXCEPT !.gn[n + 1] = 65536 * n94x94.val,
                               !.gndbl[n + 1] = TRUE],
             pos |-> skiptoeol(bytes, n94x94.pos)]
        Set94(n94) ==
            [cfg |-> [c EXCEPT !.gn[n + 1] = 65536 * n94.val,
                               !.gndbl[n + 1] = FALSE],
             pos |-> n94.pos]
        Fifth(g5) == IF g5.ch # 52 THEN Skip(g5)
                     ELSE Set94x94(charsetname(bytes, skipws(bytes, g5.pos)))
        Fourth(g4) == IF g4.ch # 57 THEN Skip(g4) ELSE Fifth(Zgetc(bytes, g4.pos))
        Third(g3) == IF g3.ch = 120 THEN Fourth(Zgetc(bytes, g3.pos))
                     ELSE Set94(charsetname(bytes, skipws(bytes, Zungetc(g3.pos))))
        Second(g2) == IF g2.ch = 54 THEN Set96(charsetname(bytes, g2.pos))
                      ELSE IF g2.ch # 52 THEN Skip(g2)
                      ELSE Third(Zgetc(bytes, g2.pos))
        First(g1) == IF g1.ch # 57 THEN Skip(g1) ELSE Second(Zgetc(bytes, g1.pos))
    IN First(Zgetc(bytes, skipws(bytes, pos0)))

\* appending a ComNode to the command list
addcommand(c, node) == [c EXCEPT !.commandlist = Append(c.commandlist, node)]

freezenode == [thecommand |-> 0, rangelo |-> 0, rangehi |-> 0, offset |-> 0]

\* readcontrol's 't' case with the offset taken from the end of the range
readtranslateFromLast(c, bytes, pos0) ==
    LET Command(first, last, dest) ==
            [cfg |-> addcommand(c, [thecommand |-> 1, rangelo |-> first.val,
                                    rangehi |-> last.val,
                                    offset |-> dest.val - last.val]),
             pos |-> skiptoeol(bytes, dest.pos)]
        Range(first, last) == Command(first, last, readTchar(bytes, skipws(bytes, last.pos)))
        Dash(first, dashcheck) ==
            Range(first, IF dashcheck.ch = 45 THEN readTchar(bytes, dashcheck.pos)
                         ELSE [val |-> first.val, pos |-> Zungetc(dashcheck.pos)])
        From(first) == Dash(first, Zgetc(bytes, first.pos))
    IN From(readTchar(bytes, skipws(bytes, pos0)))

\* readcontrol's 't' case: [cfg, pos]
readtranslate(c, bytes, pos0) ==
    LET Command(first, last, dest) ==
            [cfg |-> addcommand(c, [thecommand |-> 1, rangelo |-> first.val,
                                    rangehi |-> last.val,
                                    offset |-> dest.val - first.val]),
             pos |-> skiptoeol(bytes, dest.pos)]
        Range(first, last) == Command(first, last, readTchar(bytes, skipws(bytes, last.pos)))
        Dash(first, dashcheck) ==
            Range(first, IF dashcheck.ch = 45 THEN readTchar(bytes, dashcheck.pos)
                         ELSE [val |-> first.val, pos |-> Zungetc(dashcheck.pos)])
        From(first) == Dash(first, Zgetc(bytes, first.pos))
    IN From(readTchar(bytes, skipws(bytes, pos0)))

\* readcontrol's numeric case (pos0 is the position of the first digit): [cfg, pos]
readnumeric(c, bytes, pos0) ==
    LET Command(first, last) ==
            [cfg |-> addcommand(c, [thecommand |-> 1, rangelo |-> first.val,
                                    rangehi |-> first.val,
                                    offset |-> last.val - first.val]),
             pos |-> skiptoeol(bytes, last.pos)]
        From(first) == Command(first, readnum(bytes, skipws(bytes, first.pos)))
    IN From(readnum(bytes, pos0))

\* readcontrol's 'g' case: [cfg, pos]
readgset(c0, bytes, pos0) ==
    LET c == [c0 EXCEPT !.Multibyte = 0]
        SetGL(v) == [cfg |-> [c EXCEPT !.gl = v.ch - 48], pos |-> skiptoeol(bytes, v.pos)]
        SetGR(v) == [cfg |-> [c EXCEPT !.gr = v.ch - 48], pos |-> skiptoeol(bytes, v.pos)]
        Group(g) ==
            CASE g.ch \in {48, 49, 50, 51} -> charset(c, g.ch - 48, bytes, g.pos)
              [] g.ch \in {108, 76} -> SetGL(Zgetc(bytes, skipws(bytes, g.pos)))
              [] g.ch \in {114, 82} -> SetGR(Zgetc(bytes, skipws(bytes, g.pos)))
              [] OTHER -> [cfg |-> c, pos |-> skiptoeol(bytes, g.pos)]
    IN Group(Zgetc(bytes, skipws(bytes, pos0)))

RECURSIVE readcommands(_, _, _)
\* readcontrol's loop over the commands of the file
readcommands(c, bytes, pos) ==
    LET Rest(r) == readcommands(r.cfg, bytes, r.pos)
        Command(command, g) ==
            CASE command = 116 -> readtranslate(c, bytes, g.pos)
              [] (command >= 48 /\ command <= 57) \/ command = 45 ->
                    readnumeric(c, bytes, Zungetc(g.pos))
              [] command = 102 ->
                    [cfg |-> addcommand(c, freezenode), pos |-> skiptoeol(bytes, g.pos)]
              [] command = 98 -> [cfg |-> [c EXCEPT !.Multibyte = 1], pos |-> g.pos]
              [] command = 117 -> [cfg |-> [c EXCEPT !.Multibyte = 2], pos |-> g.pos]
              [] command = 104 -> [cfg |-> [c EXCEPT !.Multibyte = 3], pos |-> g.pos]
              [] command = 106 -> [cfg |-> [c EXCEPT !.Multibyte = 4], pos |-> g.pos]
              [] command = 103 -> readgset(c, bytes, g.pos)
              [] command \in {13, 10} -> [cfg |-> c, pos |-> g.pos]
              [] OTHER -> [cfg |-> c, pos |-> skiptoeol(bytes, g.pos)]
        Step(g) == IF g.ch = -1 THEN c ELSE Rest(Command(g.ch, g))
    IN Step(Zgetc(bytes, pos))

----------------------------------------------------------------------------
(* The files FIGopen can find.  A control file is its bytes.  A font file  *)
(* is its magic number, the hardblank and the integers of its header line, *)
(* and the lines that follow the header, each without its line terminator  *)
(* (all lines are shorter than the MAXLEN bytes myfgets reads at once).    *)

\* the rows of a glyph as the lines of a font file: the endmark '@' after each
\* row, twice after the last
GlyphLines(rows) ==
    [i \in 1..Len(rows) |-> rows[i] \o (IF i = Len(rows) THEN <<64, 64>> ELSE <<64>>)]

\* the code points every font file defines in order: ' '..'~', then the deutsch ones
RequiredOrds == [i \in 1..95 |-> 31 + i] \o deutsch

\* the lines of the required glyphs, all of height rows; glyphs maps a code point
\* to its rows, and the glyph of every other code point has empty rows
RequiredLines(glyphs, height) ==
    [k \in 1..(Len(RequiredOrds) * height) |->
        LET o == RequiredOrds[((k - 1) \div height) + 1]
            row == ((k - 1) % height) + 1
            rows == IF o \in DOMAIN glyphs THEN glyphs[o] ELSE [r \in 1..height |-> <<>>]
        IN GlyphLines(rows)[row]]

GlyphSpace == <<<<36>>, <<36>>>>                 \* "$"  / "$"
GlyphA == <<<<124, 32>>, <<124, 95>>>>           \* "| " / "|_"
GlyphB == <<<<47, 124>>, <<32, 124>>>>           \* "/|" / " |"
GlyphR == <<<<124, 32>>, <<124>>>>               \* "| " / "|"  (rows of unequal length)
GlyphM == <<<<124, 64, 64>>, <<124, 64, 64>>>>   \* "|@@" / "|@@" (ends in the end-mark)
GlyphX == <<<<92, 47>>, <<47, 92>>>>             \* "\/" / "/\"
GlyphY == <<<<95, 95>>, <<95, 95>>>>             \* "__" / "__"

BasicGlyphs == (32 :> GlyphSpace) @@ (65 :> GlyphA) @@ (66 :> GlyphB)

\* the code-tagged glyphs of the font "dup", in the order of the file: the tag
\* lines "65" and "0x41" both name the code point of the required glyph 'A'
DupTagged ==
    <<[tag |-> <<54, 53>>, ord |-> 65, rows |-> GlyphX],
      [tag |-> <<48, 120, 52, 49>>, ord |-> 65, rows |-> GlyphY]>>

RECURSIVE TaggedLines(_)
\* the lines of code-tagged glyphs: for each its tag line, then its rows
TaggedLines(tagged) ==
    IF tagged = <<>> THEN <<>>
    ELSE <<Head(tagged).tag>> \o GlyphLines(Head(tagged).rows) \o TaggedLines(Tail(tagged))

\* a font file of height 2 with hardblank '$' from its header integers, the glyphs
\* of its required code points and its code-tagged glyphs
FontFile(nums, glyphs, tagged) ==
    [suffix |-> ".flf", magic |-> "flf2", hardblank |-> 36, nums |-> nums,
     glyphs |-> glyphs, tagged |-> tagged,
     lines |-> RequiredLines(glyphs, 2) \o TaggedLines(tagged)]

FontFiles ==
    [standard |-> FontFile(<<2, 2, 4, 15, 0>>, BasicGlyphs, <<>>),
     rtl |-> FontFile(<<2, 2, 4, 15, 0, 1>>, BasicGlyphs, <<>>),
     rag |-> FontFile(<<2, 2, 4, 15, 0>>, (66 :> GlyphR) @@ BasicGlyphs, <<>>),
     dup |-> FontFile(<<2, 2, 4, 15, 0>>, BasicGlyphs, DupTagged),
     \* the file ends after the first row of 'A'
     cut |-> [FontFile(<<2, 2, 4, 15, 0>>, BasicGlyphs, <<>>)
                 EXCEPT !.lines = SliceTo(RequiredLines(BasicGlyphs, 2), 2 * (65 - 32) + 1)],
     \* another magic marker, four header integers, a max width above MAXLEN
     badmagic |-> [FontFile(<<2, 2, 4, 15, 0>>, BasicGlyphs, <<>>) EXCEPT !.magic = "flf1"],
     short |-> FontFile(<<2, 2, 4, 15>>, BasicGlyphs, <<>>),
     wide |-> FontFile(<<2, 2, MAXLEN + 1, 15, 0>>, BasicGlyphs, <<>>),
     \* a space of two hard-blanks, and the hard-blank rule in the full layout
     marks |-> FontFile(<<2, 2, 4, 15, 0>>, (65 :> GlyphM) @@ BasicGlyphs, <<>>),
     hb |-> FontFile(<<2, 2, 4, 0, 0, 0, SM_SMUSH + SM_HARDBLANK>>,
                     (32 :> <<<<36, 36>>, <<36, 36>>>>) @@ BasicGlyphs, <<>>)]

ControlFiles ==
    [upper |-> <<116, 32, 65, 45, 90, 32, 97, 10>>,      \* "t A-Z a\n"
     shift |-> <<116, 32, 65, 45, 66, 32, 66, 10>>,      \* "t A-B B\n"
     swap |-> <<54, 53, 32, 54, 54, 10, 102, 10, 54, 54, 32, 54, 53, 10>>,
                                                         \* "65 66\nf\n66 65\n"
     hz |-> <<103, 108, 32, 49, 10, 104, 10>>,           \* "gl 1\nh\n"
     dbcs |-> <<98, 10>>,                                \* "b\n"
     utf8 |-> <<117, 10>>,                               \* "u\n"
     sjis |-> <<106, 10>>,                               \* "j\n"
     chain |-> <<54, 53, 32, 54, 54, 10, 54, 54, 32, 54, 55, 10, 102, 10,
                 54, 54, 32, 54, 53, 10>>]               \* "65 66\n66 67\nf\n66 65\n"

\* FIGopen: whether a file of that name and suffix can be opened
FIGopen(files, name, suffix) ==
    /\ name \in DOMAIN files
    /\ (suffix = ".flc" \/ files[name].suffix = suffix)

----------------------------------------------------------------------------
(* readcontrol, readcontrolfiles *)

\* readcontrol: [cfg, err]
readcontrol(c, controlname) ==
    IF ~FIGopen(ControlFiles, controlname, ".flc")
    THEN [cfg |-> c, err |-> "unable to open control file"]
    ELSE [cfg |-> readcommands(addcommand(c, freezenode), ControlFiles[controlname], 0),
          err |-> ""]

RECURSIVE readcontrolfiles(_, _)
\* readcontrolfiles from the i-th name of cfilelist on; readcontrol's error is dropped
readcontrolfiles(c, i) ==
    IF i > Len(c.cfilelist) THEN c
    ELSE readcontrolfiles(readcontrol(c, c.cfilelist[i]).cfg, i + 1)

----------------------------------------------------------------------------
(* readfontchar, readfont, linealloc, LoadFont *)

RECURSIVE TrimSpaces(_, _)
\* readfontchar's first loop: k after the trailing white space of outline
TrimSpaces(outline, k) ==
    IF k >= 0 /\ IsSpace(outline[k + 1]) THEN TrimSpaces(outline, k - 1) ELSE k

\* a second loop that removes the end-mark at k and at most one more before it
TrimEndcharAtMostTwo(outline, k, endchar) ==
    IF k >= 1 /\ outline[k] = endchar THEN k - 2 ELSE k - 1

RECURSIVE TrimEndchar(_, _, _)
\* readfontchar's second loop: k after the trailing run of endchar
TrimEndchar(outline, k, endchar) ==
    IF k >= 0 /\ outline[k + 1] = endchar THEN TrimEndchar(outline, k - 1, endchar) ELSE k

\* the row readfontchar keeps of a line of the font file
StripRow(outline) ==
    LET k1 == TrimSpaces(outline, Len(outline) - 1)
        k == IF k1 >= 0 THEN TrimEndchar(outline, k1, outline[k1 + 1]) ELSE k1
    IN SliceTo(outline, k + 1)

RECURSIVE readrows(_, _, _)
\* readfontchar's loop over the rows: [rows, p], p the number of lines consumed
readrows(lines, p, n) ==
    IF n = 0 THEN [rows |-> <<>>, p |-> p]
    ELSE IF p >= Len(lines)
    THEN LET rest == readrows(lines, p, n - 1)
         IN [rows |-> <<<<>>>> \o rest.rows, p |-> rest.p]
    ELSE LET rest == readrows(lines, p + 1, n - 1)
         IN [rows |-> <<StripRow(lines[p + 1])>> \o rest.rows, p |-> rest.p]

\* readfontchar putting the new node at the end of fcharlist
readfontcharAtEnd(c, lines, p, theord) ==
    LET r == readrows(lines, p, c.charheight)
    IN [cfg |-> [c EXCEPT !.fcharlist = c.fcharlist
                                        \o <<[ord |-> theord, thechar |-> r.rows]>>],
        p |-> r.p]

\* readfontchar: [cfg, p]; the new node goes to the head of fcharlist
readfontchar(c, lines, p, theord) ==
    LET r == readrows(lines, p, c.charheight)
    IN [cfg |-> [c EXCEPT !.fcharlist = <<[ord |-> theord, thechar |-> r.rows]>>
                                        \o c.fcharlist],
        p |-> r.p]

\* readfont's two loops over the required code points, reading from line p on:
\* [cfg, p].  Each readfontchar reads charheight lines while the file has them, so
\* the i-th glyph starts charheight * (i - 1) lines after p or at the end of the file.
readrequired(c, lines, p, n) ==
    LET at(i) == IF p + c.charheight * (i - 1) < Len(lines)
                 THEN p + c.charheight * (i - 1) ELSE Len(lines)
        node(i) == [ord |-> RequiredOrds[i],
                    thechar |-> readrows(lines, at(i), c.charheight).rows]
    IN [cfg |-> [c EXCEPT !.fcharlist = [k \in 1..n |-> node(n + 1 - k)] \o c.fcharlist],
        p |-> at(n + 1)]

RECURSIVE TrimLeft(_)
TrimLeft(str) == IF Len(str) > 0 /\ IsSpace(str[1]) THEN TrimLeft(Tail(str)) ELSE str

\* strings.TrimSpace
TrimSpace(str) == LET t == TrimLeft(str) IN SliceTo(t, TrimSpaces(t, Len(t) - 1) + 1)

RECURSIVE ScanDigits(_, _, _, _)
\* the digits of the given base at the front of str from index i on:
\* [n |-> how many, val |-> their value]
ScanDigits(str, i, base, acc) ==
    IF i <= Len(str) /\ digitof(str[i], base) >= 0 /\ digitof(str[i], base) < base
    THEN LET r == ScanDigits(str, i + 1, base, acc * base + digitof(str[i], base))
         IN [n |-> r.n + 1, val |-> r.val]
    ELSE [n |-> 0, val |-> acc]

\* the code point a tag line of the font file names: [ok, val].  The forms are
\* 0x / 0X and -0x / -0X with hexadecimal digits (Sscanf %x), a whole line of
\* digits (ParseInt base 0: octal after a leading 0), and otherwise the decimal
\* digits the line starts with (Sscanf %d); signs go with the last two forms.
ParseOrd(line) ==
    LET Parse(str) ==
      LET
        at(i) == IF i <= Len(str) THEN str[i] ELSE -1
        hex == ScanDigits(str, 3, 16, 0)
        neghex == ScanDigits(str, 4, 16, 0)
        signed == at(1) \in {43, 45}
        first == IF signed THEN 2 ELSE 1
        sign == IF at(1) = 45 THEN -1 ELSE 1
        dec == ScanDigits(str, first, 10, 0)
        oct == ScanDigits(str, first + 1, 8, 0)
        whole == dec.n > 0 /\ first + dec.n - 1 = Len(str)
    IN IF at(1) = 48 /\ at(2) \in {120, 88}
       THEN [ok |-> hex.n > 0, val |-> hex.val]
       ELSE IF at(1) = 45 /\ at(2) = 48 /\ at(3) \in {120, 88}
       THEN [ok |-> neghex.n > 0, val |-> 0 - neghex.val]
       ELSE IF whole /\ at(first) = 48 /\ dec.n > 1 /\ oct.n = dec.n - 1
       THEN [ok |-> TRUE, val |-> sign * oct.val]
       ELSE [ok |-> dec.n > 0, val |-> sign * dec.val]
    IN Parse(TrimSpace(line))

RECURSIVE readtagged(_, _, _)
\* readfont's last loop: the tagged glyphs, until a line names no code point
readtagged(c, lines, p) ==
    IF p >= Len(lines) THEN c
    ELSE LET Rest(r) == readtagged(r.cfg, lines, r.p)
             Tagged(tag) == IF ~tag.ok THEN c
                            ELSE Rest(readfontchar(c, lines, p + 1, tag.val))
         IN Tagged(ParseOrd(lines[p + 1]))

\* readfont: [cfg, err]
readfont(c0) ==
    LET Read(isflf, istlf, f) ==
      LET
        c == IF istlf THEN [c0 EXCEPT !.toiletfont = TRUE] ELSE c0
        numsread == 2 + (IF Len(f.nums) < 7 THEN Len(f.nums) ELSE 7)
        num(i) == IF i <= Len(f.nums) THEN f.nums[i] ELSE 0
        maxlen == num(3)
        smush == num(4)
        cmtlines == num(5)
        ffright2left == IF numsread < 8 THEN 0 ELSE num(6)
        smush2 == IF numsread < 9
                  THEN (IF smush = 0 THEN SM_KERN
                        ELSE IF smush < 0 THEN 0
                        ELSE OrInt(smush % 32, SM_SMUSH))
                  ELSE num(7)
        charheight == IF num(1) < 1 THEN 1 ELSE num(1)
        Smushmode == IF c.Smushoverride = SMO_NO THEN smush2
                     ELSE IF c.Smushoverride = SMO_FORCE THEN OrInt(c.Smushmode, smush2)
                     ELSE c.Smushmode
        Right2left == IF c.Right2left < 0
                      THEN (IF ffright2left # 0 THEN 1 ELSE 0)
                      ELSE c.Right2left
        Justification == IF c.Justification < 0 THEN 2 * Right2left
                         ELSE c.Justification
        missing == [ord |-> 0, thechar |-> [row \in 1..charheight |-> <<>>]]
        c1 == [c EXCEPT !.Smushmode = Smushmode,
                        !.Right2left = Right2left,
                        !.Justification = Justification,
                        !.hardblank = f.hardblank,
                        !.charheight = charheight,
                        !.fcharlist = <<missing>>]
        skipped == IF cmtlines < 0 THEN 0
                   ELSE IF cmtlines > Len(f.lines) THEN Len(f.lines) ELSE cmtlines
        Tagged(req) == readtagged(req.cfg, f.lines, req.p)
      IN IF ~isflf /\ ~istlf
       THEN [cfg |-> c, err |-> "unable to open font file"]
       ELSE IF maxlen > MAXLEN
       THEN [cfg |-> c, err |-> "character is too wide"]
       ELSE IF (~c.toiletfont /\ f.magic # "flf2") \/ (c.toiletfont /\ f.magic # "tlf2")
       THEN [cfg |-> c, err |-> "not a FIGlet 2 font file"]
       ELSE IF numsread < 7
       THEN [cfg |-> c, err |-> "not a FIGlet 2 font file"]
       ELSE [cfg |-> Tagged(readrequired(c1, f.lines, skipped, Len(RequiredOrds))),
             err |-> ""]
    IN Read(FIGopen(FontFiles, c0.Fontname, ".flf"),
            ~FIGopen(FontFiles, c0.Fontname, ".flf")
                /\ FIGopen(FontFiles, c0.Fontname, ".tlf"),
            FontFiles[c0.Fontname])

linealloc(c) ==
    clearline([c EXCEPT !.inchrlinelenlimit = c.Outputwidth * 4 + 100])

\* LoadFont emptying the glyph table before anything is read
LoadFontClearingFirst(c) ==
    LET Loaded(r) == IF r.err # "" THEN r ELSE [cfg |-> linealloc(r.cfg), err |-> ""]
    IN Loaded(readfont(readcontrolfiles([c EXCEPT !.outlinelenlimit = c.Outputwidth - 1,
                                                  !.fcharlist = <<>>],
                                        1)))

\* LoadFont: [cfg, err]
LoadFontOf(c) ==
    LET Loaded(r) == IF r.err # "" THEN r ELSE [cfg |-> linealloc(r.cfg), err |-> ""]
    IN Loaded(readfont(readcontrolfiles([c EXCEPT !.outlinelenlimit = c.Outputwidth - 1],
                                        1)))

----------------------------------------------------------------------------
(* New and the options *)

New ==
    [Deutschflag |-> FALSE, Justification |-> -1, Paragraphflag |-> FALSE,
     Right2left |-> -1, Multibyte |-> 0, Smushmode |-> 0, Smushoverride |-> SMO_NO,
     Outputwidth |-> DEFAULTCOLUMNS, Fontname |-> "standard",
     cfilelist |-> <<>>, commandlist |-> <<>>,
     hardblank |-> 0, charheight |-> 0, fcharlist |-> <<>>,
     outputline |-> <<>>, outlinelen |-> 0, outlinelenlimit |-> 0,
     inchrline |-> <<>>, inchrlinelen |-> 0, inchrlinelenlimit |-> 0,
     currchar |-> <<>>, currcharwidth |-> 0, previouscharwidth |-> 0,
     hzmode |-> FALSE, gndbl |-> <<FALSE, FALSE, FALSE, FALSE>>,
     gn |-> <<0, 128, 0, 0>>, gl |-> 0, gr |-> 1, toiletfont |-> FALSE,
     getinchr_buffer |-> 0, getinchr_flag |-> FALSE,
     Optind |-> 0, Argv |-> <<>>, agetmode |-> 0, output |-> <<>>]

\* WithFont for a name without a font suffix
WithFont(c, name) == [c EXCEPT !.Fontname = name]

WithWidth(c, width) == IF width > 0 THEN [c EXCEPT !.Outputwidth = width] ELSE c

WithJustification(c, j) == [c EXCEPT !.Justification = j]

WithRightToLeft(c, r) == [c EXCEPT !.Right2left = r]

WithSmushMode(c, mode) ==
    IF mode < -1 THEN [c EXCEPT !.Smushoverride = SMO_NO]
    ELSE [c EXCEPT !.Smushmode = IF mode = 0 THEN SM_KERN
                                 ELSE IF mode = -1 THEN 0
                                 ELSE OrInt(mode % 64, SM_SMUSH),
                   !.Smushoverride = SMO_YES]

WithKerning(c) == [c EXCEPT !.Smushmode = SM_KERN, !.Smushoverride = SMO_YES]

WithFullWidth(c) == [c EXCEPT !.Smushmode = 0, !.Smushoverride = SMO_YES]

WithSmushing(c) == [c EXCEPT !.Smushmode = SM_SMUSH, !.Smushoverride = SMO_FORCE]

WithOverlapping(c) == [c EXCEPT !.Smushmode = SM_SMUSH, !.Smushoverride = SMO_YES]

\* one of the smush options: o.opt names it, "font" is none of them and "mode" is
\* WithSmushMode(o.mode)
SmushOption(c, o) ==
    CASE o.opt = "font" -> c
      [] o.opt = "kerning" -> WithKerning(c)
      [] o.opt = "fullwidth" -> WithFullWidth(c)
      [] o.opt = "smushing" -> WithSmushing(c)
      [] o.opt = "overlapping" -> WithOverlapping(c)
      [] o.opt = "mode" -> WithSmushMode(c, o.mode)

\* the smush options of these names, and WithSmushMode of these modes
SmushOptions(names, modes) ==
    {[opt |-> n, mode |-> 0] : n \in names} \cup {[opt |-> "mode", mode |-> m] : m \in modes}

\* New followed by the options, and by the assignment of the exported Paragraphflag
Configs(fonts, widths, justs, dirs, smush, paragraph) ==
    { SmushOption(
          [WithRightToLeft(WithJustification(WithWidth(WithFont(New, f), w), j), r)
              EXCEPT !.Paragraphflag = p],
          o)
      : <<f, w, j, r, o, p>> \in fonts \X widths \X justs \X dirs \X smush \X paragraph }

----------------------------------------------------------------------------
(* RenderString: the body of its outer loop as an operator, and the whole   *)
(* call as the iteration of that body                                       *)

\* the oversized glyph is not emitted
putoversizeDropped(c, i) == c

RECURSIVE putoversize(_, _)
\* RenderString's loop over the rows of a glyph wider than the output line
putoversize(c, i) ==
    IF i > c.charheight THEN c
    ELSE LET row == c.currchar[i]
             start == IF Len(row) - c.outlinelenlimit < 0 THEN 0
                      ELSE Len(row) - c.outlinelenlimit
         IN putoversize(putstring(c, IF c.Right2left = 1 /\ c.Outputwidth > 1
                                     THEN SliceFrom(row, start) ELSE row),
                        i + 1)

RECURSIVE attempts(_, _, _, _)
\* the number of addchar calls RenderString's inner loop makes for the character
\* ch, counted up to n
attempts(c, wbm0, ch, n) ==
    LET wbm == IF wbm0 = -1 THEN 0 ELSE wbm0
        Tried(a) ==
            IF a.ok \/ a.cfg.outlinelen = 0 \/ ch = 32 THEN 1
            ELSE 1 + attempts(IF wbm >= 2 THEN splitline(a.cfg) ELSE printline(a.cfg),
                              IF wbm = 3 THEN 1 ELSE 0, ch, n - 1)
    IN IF n = 0 \/ (wbm0 = -1 /\ ch = 32) \/ ch = 10 THEN 0
       ELSE Tried(addchar(c, ch))

RECURSIVE placechar(_, _, _)
\* RenderString's inner loop for the character ch: [cfg, wordbreakmode]
placechar(c, wbm0, ch) ==
    LET wbm == IF wbm0 = -1 THEN 0 ELSE wbm0
        Added(a) ==
            IF a.ok
            THEN [cfg |-> a.cfg,
                  wordbreakmode |-> IF ch # 32 THEN (IF wbm >= 2 THEN 3 ELSE 1)
                                    ELSE (IF wbm > 0 THEN 2 ELSE 0)]
            ELSE IF a.cfg.outlinelen = 0
            THEN [cfg |-> putoversize(a.cfg, 1), wordbreakmode |-> -1]
            ELSE IF ch = 32
            THEN [cfg |-> IF wbm = 2 THEN splitline(a.cfg) ELSE printline(a.cfg),
                  wordbreakmode |-> -1]
            ELSE placechar(IF wbm >= 2 THEN splitline(a.cfg) ELSE printline(a.cfg),
                           IF wbm = 3 THEN 1 ELSE 0, ch)
    IN IF wbm0 = -1 /\ ch = 32 THEN [cfg |-> c, wordbreakmode |-> wbm0]
       ELSE IF wbm0 = -1 /\ ch = 10 THEN [cfg |-> c, wordbreakmode |-> 0]
       ELSE IF ch = 10 THEN [cfg |-> printline(c), wordbreakmode |-> 0]
       ELSE Added(addchar(c, ch))

\* one iteration of RenderString's outer loop:
\* [eof, cfg, wordbreakmode, last_was_eol_flag]
renderstep(c0, wbm, eol) ==
    LET Placed(placed, neweol) ==
            [eof |-> FALSE, cfg |-> placed.cfg, wordbreakmode |-> placed.wordbreakmode,
             last_was_eol_flag |-> neweol]
        Mapped(c, neweol, ch3) ==
            LET ch == IF isASCII(ch3) /\ IsSpace(ch3)
                      THEN (IF ch3 = 9 \/ ch3 = 32 THEN 32 ELSE 10)
                      ELSE ch3
            IN IF (ch > 0 /\ ch < 32 /\ ch # 10) \/ ch = 127
               THEN [eof |-> FALSE, cfg |-> c, wordbreakmode |-> wbm,
                     last_was_eol_flag |-> neweol]
               ELSE Placed(placechar(c, wbm, ch), neweol)
        Char(c, ch1) ==
            LET neweol == isASCII(ch1) /\ IsSpace(ch1) /\ ch1 # 9 /\ ch1 # 32
                ch2 == IF c.Deutschflag /\ ch1 >= 91 /\ ch1 <= 93
                       THEN deutsch[ch1 - 91 + 1]
                       ELSE IF c.Deutschflag /\ ch1 >= 123 /\ ch1 <= 126
                       THEN deutsch[ch1 - 123 + 3 + 1]
                       ELSE ch1
            IN Mapped(c, neweol, handlemapping(c, ch2))
        Joined(g2) == [ch |-> IF isASCII(g2.ch) /\ IsSpace(g2.ch) THEN 10 ELSE 32,
                       cfg |-> ungetinchr(g2.cfg, g2.ch)]
        Taken(g) == Char(g.cfg, g.ch)
        Read(g) ==
            IF g.ch = -1
            THEN [eof |-> TRUE, cfg |-> g.cfg, wordbreakmode |-> wbm,
                  last_was_eol_flag |-> eol]
            ELSE Taken(IF g.ch = 10 /\ g.cfg.Paragraphflag /\ ~eol
                       THEN Joined(getinchr(g.cfg)) ELSE g)
    IN Read(getinchr(c0))

\* the assignments RenderString starts with
renderstart(c, text) ==
    [c EXCEPT !.output = <<>>,
              !.Argv = <<<<102, 105, 103, 108, 101, 116>>, text>>,
              !.Optind = 1,
              !.agetmode = 0]

\* what RenderString does after its loop
renderfinish(c) == IF c.outlinelen # 0 THEN printline(c) ELSE c

RECURSIVE renderloop(_, _, _)
renderloop(c, wbm, eol) ==
    LET Step(r) == IF r.eof THEN renderfinish(r.cfg)
                   ELSE renderloop(r.cfg, r.wordbreakmode, r.last_was_eol_flag)
    IN Step(renderstep(c, wbm, eol))

\* RenderString as a whole: the Config afterwards, whose output it returns
RenderString(c, text) == renderloop(renderstart(c, text), 0, FALSE)

----------------------------------------------------------------------------
(* The actions: the library's calls on one Config.  RenderString runs in    *)
(* steps, one per iteration of its loop; the other calls are atomic.       *)

MaxText == 3        \* the longest text rendered
MaxRenders == 2     \* how many RenderString calls on the Config
MaxLoads == 2       \* how many LoadFont calls on the Config
MaxCFiles == 2      \* how many AddControlFile calls before the list is cleared

\* the texts over an alphabet of bytes, up to MaxText bytes long
Texts(alphabet) == UNION {[1..k -> alphabet] : k \in 0..MaxText}

AddControlFile(name) ==
    /\ pc = "idle"
    /\ Len(cfg.cfilelist) < MaxCFiles
    /\ cfg' = [cfg EXCEPT !.cfilelist = Append(cfg.cfilelist, name)]
    /\ UNCHANGED <<pc, wordbreakmode, last_was_eol_flag, loaderr, applied, loaded, calls>>

ClearControlFiles ==
    /\ pc = "idle"
    /\ cfg' = [cfg EXCEPT !.cfilelist = <<>>,
                          !.Multibyte = 0,
                          !.gn = <<0, 128, 0, 0>>,
                          !.gndbl = <<FALSE, FALSE, FALSE, FALSE>>,
                          !.gl = 0,
                          !.gr = 1]
    /\ UNCHANGED <<pc, wordbreakmode, last_was_eol_flag, loaderr, applied, loaded, calls>>

LoadFont ==
    /\ pc = "idle"
    /\ calls.load < MaxLoads
    /\ \E r \in {LoadFontOf(cfg)} :
          /\ cfg' = r.cfg
          /\ loaderr' = r.err
          /\ loaded' = r.cfg
    /\ applied' = applied \o SelectSeq(cfg.cfilelist,
                                       LAMBDA n : FIGopen(ControlFiles, n, ".flc"))
    /\ calls' = [calls EXCEPT !.load = calls.load + 1]
    /\ UNCHANGED <<pc, wordbreakmode, last_was_eol_flag>>

\* RenderString is called: a font is loaded (getletter fails on an empty list)
RenderBegin(text) ==
    /\ pc = "idle"
    /\ cfg.fcharlist # <<>>
    /\ calls.render < MaxRenders
    /\ cfg' = renderstart(cfg, text)
    /\ pc' = "render"
    /\ wordbreakmode' = 0
    /\ last_was_eol_flag' = FALSE
    /\ calls' = [calls EXCEPT !.render = calls.render + 1]
    /\ UNCHANGED <<loaderr, applied, loaded>>

RenderChar ==
    /\ pc = "render"
    /\ \E r \in {renderstep(cfg, wordbreakmode, last_was_eol_flag)} :
          /\ ~r.eof
          /\ cfg' = r.cfg
          /\ wordbreakmode' = r.wordbreakmode
          /\ last_was_eol_flag' = r.last_was_eol_flag
    /\ UNCHANGED <<pc, loaderr, applied, loaded, calls>>

RenderEnd ==
    /\ pc = "render"
    /\ \E r \in {renderstep(cfg, wordbreakmode, last_was_eol_flag)} :
          /\ r.eof
          /\ cfg' = renderfinish(r.cfg)
    /\ pc' = "idle"
    /\ UNCHANGED <<wordbreakmode, last_was_eol_flag, loaderr, applied, loaded, calls>>

InitOf(configs) ==
    /\ cfg \in configs
    /\ pc = "idle"
    /\ wordbreakmode = 0
    /\ last_was_eol_flag = FALSE
    /\ loaderr = ""
    /\ applied = <<>>
    /\ loaded = New
    /\ calls = [load |-> 0, render |-> 0]

----------------------------------------------------------------------------
(* Render(text, options...): New, the options, LoadFont, and RenderString   *)
(* once if the font loaded.  Widths and justifications vary.                *)

InitRender ==
    InitOf(Configs({"standard", "rtl"}, {0, 1, 2, 3, 5}, {-1, 0, 1, 2}, {-1},
                   SmushOptions({"font", "fullwidth"}, {}), {FALSE}))

NextRender ==
    \/ calls.load = 0 /\ LoadFont
    \/ \E text \in Texts({65, 66, 32, 10}) :
          calls.load = 1 /\ loaderr = "" /\ calls.render = 0 /\ RenderBegin(text)
    \/ RenderChar
    \/ RenderEnd

SpecRender == InitRender /\ [][NextRender]_vars

\* C1 as stated: for every output width W > 0 accepted by WithWidth, every row of
\* the output of Render, justification padding included, is at most W characters long.
C1_RowsWithinWidth ==
    \A i \in 1..Len(cfg.output) : Len(cfg.output[i]) <= cfg.Outputwidth

\* C1, amended: for every output width W > 1, every row of the output of Render,
\* justification padding included, is at most W - 1 characters long (putstring
\* clips and pads only when W > 1; at W = 1 a glyph goes out whole).
C1_RowsWithinWidthAbove1 ==
    cfg.Outputwidth > 1 =>
        \A i \in 1..Len(cfg.output) : Len(cfg.output[i]) <= cfg.Outputwidth - 1

\* Render has returned rows that fill the width: a right-justified, padded row and
\* a row cut from a glyph wider than the line
C1_Witness ==
    /\ pc = "idle" /\ calls.render = 1
    /\ cfg.Outputwidth = 2 /\ cfg.Justification = 2
    /\ \E i \in 1..Len(cfg.output) : cfg.output[i] = <<124>>
    /\ \E i \in 1..Len(cfg.output) : cfg.output[i] = <<32>>

\* C14 as stated: with right justification and output width W, every emitted row
\* whose content has length len < W is preceded by exactly W - len padding spaces.
C14_RightPadIsWidthMinusLen ==
    cfg.Justification = 2 =>
        \A r \in 1..Len(cfg.outputline) :
            LET len == Len(cfg.outputline[r])
                W == cfg.Outputwidth
                content == [i \in 1..len |-> IF cfg.outputline[r][i] = cfg.hardblank
                                             THEN 32 ELSE cfg.outputline[r][i]]
                out == putstring(cfg, cfg.outputline[r]).output
            IN len < W => out[Len(out)] = [i \in 1..(W - len) |-> 32] \o content

\* C14, amended: with right justification and output width W, every emitted row
\* whose content has length len < W is preceded by exactly W - 1 - len padding
\* spaces, so that it ends in column W - 1; when W > 1 every row of the output is
\* W - 1 characters long.
C14_RightPadIsWidthMinusOneMinusLen ==
    cfg.Justification = 2 =>
        /\ \A r \in 1..Len(cfg.outputline) :
              LET len == Len(cfg.outputline[r])
                  W == cfg.Outputwidth
                  content == [i \in 1..len |-> IF cfg.outputline[r][i] = cfg.hardblank
                                               THEN 32 ELSE cfg.outputline[r][i]]
                  out == putstring(cfg, cfg.outputline[r]).output
              IN len < W => out[Len(out)] = [i \in 1..(W - 1 - len) |-> 32] \o content
        /\ cfg.Outputwidth > 1 =>
              \A i \in 1..Len(cfg.output) : Len(cfg.output[i]) = cfg.Outputwidth - 1

\* "A" rendered right-justified at width 5: two spaces before the two columns of 'A'
C14_Witness ==
    /\ pc = "idle" /\ calls.render = 1
    /\ cfg.Justification = 2 /\ cfg.Outputwidth = 5
    /\ cfg.output = <<<<32, 32, 124, 32>>, <<32, 32, 124, 95>>>>

----------------------------------------------------------------------------
(* Render on a line wide enough for every text: fonts and smush modes vary  *)

InitCompose ==
    InitOf(Configs({"standard", "rtl", "rag", "dup"}, {0}, {-1}, {-1},
                   SmushOptions({"font", "kerning", "fullwidth", "smushing",
                                 "overlapping"}, {1, 33}),
                   {FALSE}))

NextCompose ==
    \/ calls.load = 0 /\ LoadFont
    \/ \E text \in Texts({65, 66, 32}) :
          calls.load = 1 /\ loaderr = "" /\ calls.render = 0 /\ RenderBegin(text)
    \/ RenderChar
    \/ RenderEnd

SpecCompose == InitCompose /\ [][NextCompose]_vars

\* the characters whose glyph may come next: 'A', 'B', ' ', and 'C' whose glyph
\* has empty rows
NextChars == {65, 66, 32, 67}

\* the rows of the glyph getletter finds for ch
GlyphOf(ch) == getletter(cfg, ch).currchar

\* full-width mode is forced and two characters have been appended to the empty line
TwoAppendedFullWidth ==
    /\ pc = "render"
    /\ cfg.Smushmode = 0 /\ cfg.Smushoverride = SMO_YES
    /\ cfg.inchrlinelen = 2

KerningForced ==
    /\ pc = "render"
    /\ HasBit(cfg.Smushmode, SM_KERN) /\ ~HasBit(cfg.Smushmode, SM_SMUSH)
    /\ cfg.Smushoverride = SMO_YES

\* when addchar appends the glyph c.currchar, no cell where a character of the
\* line and a character of the glyph overlap holds two characters other than spaces
OverlapsBlankOnly(c) ==
    LET amount == smushamount(c)
    IN \A row \in 1..c.charheight : \A k \in 0..(amount - 1) :
          LET line == c.outputline[row]
              glyph == c.currchar[row]
              column == IF c.outlinelen - amount + k < 0 THEN 0
                        ELSE c.outlinelen - amount + k
              idx == c.currcharwidth - amount + k
          IN IF c.Right2left = 1
             THEN (k < Len(line) /\ idx >= 0 /\ idx < Len(glyph))
                      => (glyph[idx + 1] = 32 \/ line[k + 1] = 32)
             ELSE (column < Len(line) /\ k < Len(glyph))
                      => (line[column + 1] = 32 \/ glyph[k + 1] = 32)

\* some row of the line ends in a character other than a space where the row of
\* the glyph c.currchar begins with one (end and beginning swapped when
\* right-to-left); with full, only rows that reach the last column count, those
\* as long as the line (as the glyph when right-to-left)
Touching(c, full) ==
    \E row \in 1..c.charheight :
        LET line == c.outputline[row]
            glyph == c.currchar[row]
        IN /\ Len(line) > 0 /\ Len(glyph) > 0
           /\ IF c.Right2left = 1
              THEN /\ glyph[Len(glyph)] # 32 /\ line[1] # 32
                   /\ full => Len(glyph) = c.currcharwidth
              ELSE /\ line[Len(line)] # 32 /\ glyph[1] # 32
                   /\ full => Len(line) = c.outlinelen

RuleBits == {SM_EQUAL, SM_LOWLINE, SM_HIERARCHY, SM_PAIR, SM_BIGX, SM_HARDBLANK}

RuleBitsMask == SM_EQUAL + SM_LOWLINE + SM_HIERARCHY + SM_PAIR + SM_BIGX + SM_HARDBLANK

RECURSIVE AmountsOver(_, _, _)
\* the smush amounts of the glyph c.currchar on the line of c under the sets of rule
\* bits lo..hi in turn, smushing enabled
AmountsOver(c, lo, hi) ==
    IF lo = hi THEN <<smushamt([c EXCEPT !.Smushmode = SM_SMUSH + lo])>>
    ELSE AmountsOver(c, lo, (lo + hi) \div 2) \o AmountsOver(c, (lo + hi) \div 2 + 1, hi)

\* the smush amount of the glyph of ch on the current line under each set of rule
\* bits: the amount under the set m is AmountUnder(ch)[m + 1]
AmountUnder(ch) == AmountsOver(getletter(cfg, ch), 0, RuleBitsMask)

\* the amounts amt, one for each set of rule bits, never decrease when a bit is
\* added to a set from..RuleBitsMask; so they never decrease from one of these sets
\* to a superset of it, which is reached by adding its further bits one at a time
Monotone(amt, from) ==
    \A m \in from..RuleBitsMask : \A b \in RuleBits :
        ~HasBit(m, b) => amt[m + b + 1] >= amt[m + 1]

\* C4 as stated: for a fixed line and a fixed next glyph, if the set of enabled
\* rule bits M1 is a subset of M2 (smushing enabled in both), the smush amount
\* under M2 is at least the one under M1.
C4_Monotone ==
    pc = "render" => \A ch \in NextChars : Monotone(AmountUnder(ch), 0)

\* C4, amended: the same for a set M1 that is not empty (with no rule bit set the
\* smushing is universal, and merges more than any set of rules).
C4_MonotoneNonEmpty ==
    pc = "render" => \A ch \in NextChars : Monotone(AmountUnder(ch), 1)

\* after 'A', the glyph of 'B' smushes further under EQUAL, LOWLINE and HIERARCHY
\* than under EQUAL alone
C4_Witness ==
    /\ pc = "render"
    /\ cfg.inchrline = <<65>> /\ cfg.Right2left = 0
    /\ AmountUnder(66)[SM_EQUAL + 1] = 1
    /\ AmountUnder(66)[SM_EQUAL + SM_LOWLINE + SM_HIERARCHY + 1] = 2

\* the glyphs a font file declares for code point o, in the order of the file
Declared(f, o) ==
    (IF o \in DOMAIN f.glyphs THEN <<f.glyphs[o]>> ELSE <<>>)
    \o [i \in 1..Len(SelectSeq(f.tagged, LAMBDA t : t.ord = o)) |->
            SelectSeq(f.tagged, LAMBDA t : t.ord = o)[i].rows]

\* the font of the Config has been loaded
FontLoaded == calls.load > 0 /\ loaderr = ""

\* C10 as stated: when a font declares two glyphs with the same ordinal, glyph
\* lookup returns the one that was loaded first.
C10_FirstDeclaredWins ==
    FontLoaded =>
        \A o \in NextChars :
            LET d == Declared(FontFiles[cfg.Fontname], o)
            IN d # <<>> => GlyphOf(o) = d[1]

\* C10, amended: when a font declares two glyphs with the same ordinal, glyph
\* lookup returns the one that was loaded last: a later code-tagged glyph replaces
\* the earlier one.
C10_LastDeclaredWins ==
    FontLoaded =>
        \A o \in NextChars :
            LET d == Declared(FontFiles[cfg.Fontname], o)
            IN d # <<>> => GlyphOf(o) = d[Len(d)]

\* "A" rendered in the font that declares 'A' three times: the rows are those of
\* the last declaration
C10_Witness ==
    /\ FontLoaded /\ cfg.Fontname = "dup"
    /\ pc = "idle" /\ calls.render = 1
    /\ Len(Declared(FontFiles["dup"], 65)) = 3
    /\ cfg.Argv[2] = <<65>>
    /\ cfg.output = GlyphY

\* every glyph of the loaded font has rows of one width
EqualWidthFont ==
    \A i \in 1..Len(cfg.fcharlist) :
        \A row \in 1..Len(cfg.fcharlist[i].thechar) :
            Len(cfg.fcharlist[i].thechar[row]) = Len(cfg.fcharlist[i].thechar[1])

\* C27: for fonts whose glyph rows all have equal width, after any sequence of
\* addchar calls in either direction no cell of the output line holds the rune 0:
\* the "no merge" result of smushem is never stored, because every overlapped
\* column pair either contains a space or is a pair that smushem merges.
C27_NoZeroCell ==
    (FontLoaded /\ EqualWidthFont) =>
        \A ch \in NextChars :
            LET Holds(a) ==
                  \A row \in 1..a.cfg.charheight :
                     \A i \in 1..Len(a.cfg.outputline[row]) : a.cfg.outputline[row][i] # 0
            IN pc = "render" => Holds(addchar(cfg, ch))

\* "AA" composed left-to-right by the rules of the font: the second 'A' was moved
\* two columns into the first, and the pairs "|"/" " and "_"/"|" were merged
C27_Witness ==
    /\ pc = "render" /\ EqualWidthFont /\ cfg.Right2left = 0
    /\ cfg.inchrline = <<65, 65>>
    /\ cfg.outlinelen = 3
    /\ cfg.outputline = <<<<124, 124, 32>>, <<124, 124, 95>>>>

\* C19: with the hierarchy rule bit set (smushing enabled, both glyph widths >= 2),
\* for any two characters taken from different tiers of the chain | , /\ , [] , {} ,
\* () , <> smushem returns the character of the higher tier whichever side it is
\* on, and two characters of the same tier are not merged by this rule.
C19_HigherTierWins ==
    (pc = "render" /\ HasBit(cfg.Smushmode, SM_SMUSH)
                   /\ HasBit(cfg.Smushmode, SM_HIERARCHY)) =>
        \A ch \in NextChars :
            LET tiers == <<{124}, {47, 92}, {91, 93}, {123, 125}, {40, 41}, {60, 62}>>
                Holds(c) ==
                    (c.previouscharwidth >= 2 /\ c.currcharwidth >= 2) =>
                        \A i, j \in 1..6 : \A lch \in tiers[i] : \A rch \in tiers[j] :
                            /\ i < j => smushem(c, lch, rch) = rch
                            /\ i > j => smushem(c, lch, rch) = lch
                            /\ i = j =>
                                  smushem([c EXCEPT !.Smushmode = SM_SMUSH + SM_HIERARCHY],
                                          lch, rch) = 0
            IN Holds(getletter(cfg, ch))

\* the font's own rules, 'B' appended after 'A': in the first row the '|' of 'A'
\* and the '/' of 'B' met, and the '/' of the higher tier is what is left
C19_Witness ==
    /\ pc = "render" /\ cfg.Right2left = 0
    /\ HasBit(cfg.Smushmode, SM_SMUSH) /\ HasBit(cfg.Smushmode, SM_HIERARCHY)
    /\ cfg.inchrline = <<65, 66>>
    /\ cfg.previouscharwidth = 2 /\ cfg.currcharwidth = 2
    /\ cfg.outputline[1] = <<47, 124>>

\* where the line and the glyph c.currchar meet in a row: margins is the number of
\* blank columns between the last non-blank of the one that comes first (the line,
\* the glyph when right-to-left; all its columns when it has no non-blank) and the
\* first non-blank of the other, merges whether both have a non-blank there and
\* smushem merges the two
Boundary(c, row) ==
    LET Of(back, backlen, fwd) ==
            LET nb(s) == {i \in 1..Len(s) : s[i] # 32}
                lastpos == IF nb(back) = {} THEN 0
                           ELSE CHOOSE i \in nb(back) : \A j \in nb(back) : j <= i
                firstpos == IF nb(fwd) = {} THEN Len(fwd) + 1
                            ELSE CHOOSE i \in nb(fwd) : \A j \in nb(fwd) : i <= j
            IN [margins |-> (backlen - lastpos) + (firstpos - 1),
                merges |-> /\ lastpos > 0 /\ firstpos <= Len(fwd)
                           /\ smushem(c, back[lastpos], fwd[firstpos]) # 0]
    IN IF c.Right2left = 1
       THEN Of(c.currchar[row], c.currcharwidth, c.outputline[row])
       ELSE Of(c.outputline[row], c.outlinelen, c.currchar[row])

\* the least of the glyph width and, over all rows, of the blank margins, one more
\* in a row where the boundary characters merge and merging counts
LeastOverlap(c, merging) ==
    LET amts == {c.currcharwidth} \cup
                { Boundary(c, row).margins
                      + (IF merging /\ Boundary(c, row).merges THEN 1 ELSE 0)
                  : row \in 1..c.charheight }
    IN CHOOSE m \in amts : \A n \in amts : m <= n

\* C16 as stated: for every current line and next glyph, the smush amount used by
\* addchar equals the minimum over all rows of that row's tentative overlap (the
\* blank margins of line row and glyph row, plus 1 when the line has no non-blank
\* or the boundary characters merge under smushem), clamped to 0..glyph width.
C16_AmountIsLeastOverlap ==
    pc = "render" =>
        \A ch \in NextChars :
            LET Holds(c) == smushamount(c) = LeastOverlap(c, TRUE)
            IN Holds(getletter(cfg, ch))

\* C16, amended: when smushing or kerning is enabled (SM_SMUSH or SM_KERN set), the
\* smush amount used by addchar equals the minimum over all rows of that row's
\* tentative overlap, clamped to 0..glyph width; in full-width mode it is 0
\* whatever the rows allow.
C16_AmountIsLeastOverlapUnlessFullWidth ==
    pc = "render" =>
        \A ch \in NextChars :
            LET Holds(c) ==
                    smushamount(c) =
                        IF HasBit(c.Smushmode, SM_SMUSH) \/ HasBit(c.Smushmode, SM_KERN)
                        THEN LeastOverlap(c, TRUE) ELSE 0
            IN Holds(getletter(cfg, ch))

\* the font's own rules, 'B' next after 'A': both rows allow one blank column and
\* one merged column
C16_Witness ==
    /\ pc = "render" /\ cfg.Right2left = 0
    /\ HasBit(cfg.Smushmode, SM_SMUSH)
    /\ cfg.inchrline = <<65>>
    /\ \A row \in 1..2 : /\ Boundary(getletter(cfg, 66), row).margins = 1
                         /\ Boundary(getletter(cfg, 66), row).merges
    /\ smushamount(getletter(cfg, 66)) = 2

\* C17 as stated: in pure kerning mode (SM_KERN set, no merge rules, SM_SMUSH
\* clear), as in full-width mode, the smush amount computed for every glyph append
\* is 0.
C17_KerningAmountIsZero ==
    (pc = "render" /\ cfg.Smushmode \in {0, SM_KERN}) =>
        \A ch \in NextChars : smushamount(getletter(cfg, ch)) = 0

\* C17, amended: in full-width mode the smush amount computed for every glyph
\* append is 0; in pure kerning mode it is the least, over the rows, of the blank
\* margins between line and glyph (at most the glyph width), no column being
\* merged: 0 exactly when line and glyph touch in some row.
C17_KerningAmountIsLeastMargin ==
    (pc = "render" /\ cfg.Smushmode \in {0, SM_KERN}) =>
        \A ch \in NextChars :
            LET Holds(c) == smushamount(c) = IF c.Smushmode = 0 THEN 0
                                             ELSE LeastOverlap(c, FALSE)
            IN Holds(getletter(cfg, ch))

\* pure kerning, 'B' next after 'A': each row has one blank column between the
\* two, and the amount is 1
C17_Witness ==
    /\ pc = "render" /\ cfg.Right2left = 0
    /\ cfg.Smushmode = SM_KERN
    /\ cfg.inchrline = <<65>>
    /\ \A row \in 1..2 : Boundary(getletter(cfg, 66), row).margins = 1
    /\ smushamount(getletter(cfg, 66)) = 1

----------------------------------------------------------------------------
(* The calls on one Config in any order: control files added and cleared,   *)
(* the font loaded and loaded again, texts rendered                         *)

Init ==
    InitOf(Configs({"standard"}, {0}, {-1}, {-1}, SmushOptions({"font"}, {}), {FALSE}))

Next ==
    \/ \E name \in {"upper", "shift", "hz", "nofile"} : AddControlFile(name)
    \/ ClearControlFiles
    \/ LoadFont
    \/ \E text \in {<<65>>, <<66, 65>>} : RenderBegin(text)
    \/ RenderChar
    \/ RenderEnd

Spec == Init /\ [][Next]_vars

\* the printable ASCII code points
Printable == 32..126

\* the Config with the control files of list applied once to an empty command list
AppliedOnce(list) == readcontrolfiles([New EXCEPT !.cfilelist = list], 1)

\* every control file of the list can be opened
AllOpen(list) == \A i \in 1..Len(list) : FIGopen(ControlFiles, list[i], ".flc")

\* C5: for every control resource and every input code point, the substitution
\* computed after the resource has been applied twice (by calling LoadFont twice on
\* the same Config) equals the substitution computed after it has been applied once.
C5_SecondLoadKeepsMapping ==
    (/\ cfg.cfilelist # <<>> /\ AllOpen(cfg.cfilelist)
     /\ applied = cfg.cfilelist \o cfg.cfilelist)
        => \A ch \in Printable :
              handlemapping(cfg, ch) = handlemapping(AppliedOnce(cfg.cfilelist), ch)

\* the control file holding only "t A-Z a" has been applied, once
OnlyUpperApplied == applied = <<"upper">> /\ cfg.cfilelist = <<"upper">>

\* C6 as stated: after a control file containing only the directive "t A-Z a" is
\* applied, every uppercase letter A..Z of the input is mapped to the single
\* character 'a' before glyph lookup.
C6_UpperToSingleA ==
    OnlyUpperApplied => \A ch \in 65..90 : handlemapping(cfg, ch) = 97

\* C6, amended: after a control file containing only the directive "t A-Z a" is
\* applied, every uppercase letter A..Z of the input is mapped to its lowercase
\* letter before glyph lookup: the range is moved by the offset 'a' - 'A', and
\* every other code point is left as it is.
C6_UpperToLower ==
    OnlyUpperApplied =>
        \A ch \in 0..127 :
            handlemapping(cfg, ch) = IF ch >= 65 /\ ch <= 90 THEN ch + 32 ELSE ch

\* "BA" rendered under the mapping: the glyphs of 'b' and 'a' were looked up
C6_Witness ==
    /\ OnlyUpperApplied
    /\ pc = "render"
    /\ cfg.inchrline = <<98, 97>>

\* the mapping and the registers as C7 has them after ClearControlFiles
Cleared(c) ==
    /\ \A ch \in 0..127 : handlemapping(c, ch) = ch
    /\ c.Multibyte = 0
    /\ c.gn = <<0, 128, 0, 0>>
    /\ c.gndbl = <<FALSE, FALSE, FALSE, FALSE>>
    /\ c.gl = 0 /\ c.gr = 1

\* C7: after ClearControlFiles, whatever AddControlFile and LoadFont calls came
\* before, the accumulated control mapping is empty (character substitution is
\* the identity on every code point) and the multi-byte mode and the ISO-2022
\* registers have their default values.
C7_ClearResetsMapping == [][ClearControlFiles => Cleared(cfg')]_vars

\* C8: if a control file requested with AddControlFile cannot be opened, loading
\* fails: LoadFont returns an error (and so nothing is rendered).
C8_MissingControlFileFails ==
    (calls.load > 0 /\ ~AllOpen(loaded.cfilelist)) => loaderr # ""

----------------------------------------------------------------------------
(* One Config, its font loaded once, and RenderString called again and      *)
(* again; the texts hold the shift characters SO and SI of ISO 2022         *)

InitSession ==
    InitOf(Configs({"standard"}, {0, 3}, {-1}, {-1}, SmushOptions({"font"}, {}),
                   {FALSE}))

NextSession ==
    \/ calls.load = 0 /\ LoadFont
    \/ \E text \in Texts({65, 14, 15}) : RenderBegin(text)
    \/ RenderChar
    \/ RenderEnd

SpecSession == InitSession /\ [][NextSession]_vars

\* C9: the output of RenderString(T) depends only on the Config's settings, its
\* loaded font and T: rendering T after any sequence of earlier RenderString calls
\* on the same Config gives the same output as rendering T first, on the Config as
\* LoadFont left it.
C9_RenderIndependentOfHistory ==
    (pc = "idle" /\ calls.render > 0)
        => cfg.output = RenderString(loaded, cfg.Argv[2]).output

----------------------------------------------------------------------------
(* Fonts loaded one after the other on one Config: files that load, files   *)
(* whose glyph data is ragged or cut short, and files readfont refuses      *)

\* the Fontname of the Config is set anew (WithFont applied to the Config, as
\* setFont does before it calls LoadFont again)
UseFont(name) ==
    /\ pc = "idle"
    /\ calls.load > 0
    /\ name # cfg.Fontname
    /\ cfg' = WithFont(cfg, name)
    /\ UNCHANGED <<pc, wordbreakmode, last_was_eol_flag, loaderr, applied, loaded, calls>>

InitLoad ==
    InitOf(Configs({"standard", "rtl", "rag", "cut", "nofont", "badmagic", "short",
                    "wide", "hb", "marks"},
                   {0}, {-1}, {-1}, SmushOptions({"font", "overlapping"}, {}), {FALSE}))

\* RenderString is called only when the last LoadFont returned no error, as in Render
NextLoad ==
    \/ LoadFont
    \/ \E name \in {"standard", "cut", "nofont", "badmagic", "short", "wide"} :
          UseFont(name)
    \/ \E text \in {<<65>>, <<66>>, <<32, 32>>, <<65, 32>>} : loaderr = "" /\ RenderBegin(text)
    \/ RenderChar
    \/ RenderEnd

SpecLoad == InitLoad /\ [][NextLoad]_vars

\* C11: after every successful font load, every glyph of the table has rows of
\* identical length, equal to the length of its first row after end-mark
\* stripping, for every font file content that loads, truncated glyph data included.
C11_GlyphRowsEqualLength ==
    FontLoaded =>
        \A i \in 1..Len(cfg.fcharlist) :
            \A row \in 1..Len(cfg.fcharlist[i].thechar) :
                Len(cfg.fcharlist[i].thechar[row]) = Len(cfg.fcharlist[i].thechar[1])

\* C12: when the font cannot be found, has a wrong magic marker, has fewer than 5
\* numeric header fields or declares a max width above 255, LoadFont returns an
\* error and leaves the glyph table (and the output) as it was, and Render, which
\* stops at the error, has an empty output.
C12_FailedLoadReadsNoGlyph ==
    /\ [][LoadFont =>
             /\ cfg.Fontname \in {"nofont", "badmagic", "short", "wide"} => loaderr' # ""
             /\ loaderr' # "" => /\ cfg'.fcharlist = cfg.fcharlist
                                 /\ cfg'.output = cfg.output]_vars
    /\ []((loaderr # "" /\ calls.render = 0) => (cfg.output = <<>> /\ pc = "idle"))

\* a font was loaded and rendered, then LoadFont failed on a font whose header
\* declares too wide a character: the glyphs of the first font are still there
C12_Witness ==
    /\ calls.load = 2 /\ loaderr # "" /\ cfg.Fontname = "wide"
    /\ calls.render = 1 /\ pc = "idle"
    /\ FindOrd(cfg.fcharlist, 65) > 0
    /\ cfg.output # <<>>

----------------------------------------------------------------------------
(* RenderString in paragraph mode: texts with newlines, on a line wide       *)
(* enough for every text and on a line that holds one glyph                 *)

InitParagraph ==
    InitOf(Configs({"standard"}, {0, 4}, {-1}, {-1}, SmushOptions({"fullwidth"}, {}),
                   {TRUE}))

NextParagraph ==
    \/ calls.load = 0 /\ LoadFont
    \/ \E text \in Texts({65, 10, 32}) \cup {<<65, 10, 10, 66>>, <<65, 10, 32, 66>>,
                                             <<65, 13, 10, 66>>, <<65, 10, 10, 10>>,
                                             <<65, 1, 66>>, <<13, 1, 10, 66>>,
                                             <<65, 127, 66>>, <<65, 9, 66>>,
                                             <<65, 12, 66>>} :
          calls.render = 0 /\ RenderBegin(text)
    \/ RenderChar
    \/ RenderEnd

SpecParagraph == InitParagraph /\ [][NextParagraph]_vars

\* C13 as stated: in paragraph mode "A\n\nB" is emitted as exactly two flushed
\* blocks and "A\nB" as one block with the newline replaced by a space; in general
\* a newline followed by a non-whitespace character becomes a space and a newline
\* followed by whitespace stays a line flush.
C13_NewlineBeforeTextIsSpace ==
    (pc = "idle" /\ calls.render > 0) =>
        LET T == cfg.Argv[2]
            Stated == [i \in 1..Len(T) |->
                          IF T[i] = 10 /\ ~(i < Len(T) /\ IsSpace(T[i + 1]))
                          THEN 32 ELSE T[i]]
        IN /\ cfg.output = RenderString([loaded EXCEPT !.Paragraphflag = FALSE],
                                        Stated).output
           /\ T = <<65, 10, 10, 66>> => Len(cfg.output) = 2 * cfg.charheight
           /\ T = <<65, 10, 66>> => Len(cfg.output) = cfg.charheight

\* C13, amended: in paragraph mode a newline that comes directly after a line end
\* (a newline that stayed a flush, or VT, FF, CR) is always a line flush; any other
\* newline stays a flush when followed by whitespace and becomes a space when
\* followed by a non-whitespace character or by the end of the text.  The output is
\* that of the text so rewritten without paragraph mode: "A\nB" is one block, and
\* "A\n\nB" is three flushes, the middle one a block of empty rows.
C13_NewlineJoinsUnlessAfterLineEnd ==
    (pc = "idle" /\ calls.render > 0) =>
        LET T == cfg.Argv[2]
            kept[i \in 0..Len(T)] ==
                IF i = 0 THEN FALSE
                ELSE IF T[i] = 10
                THEN kept[i - 1] \/ (i < Len(T) /\ isASCII(T[i + 1]) /\ IsSpace(T[i + 1]))
                ELSE T[i] \in {11, 12, 13}
            Joined == [i \in 1..Len(T) |-> IF T[i] = 10 /\ ~kept[i] THEN 32 ELSE T[i]]
        IN /\ cfg.output = RenderString([loaded EXCEPT !.Paragraphflag = FALSE],
                                        Joined).output
           /\ T = <<65, 10, 10, 66>> => Len(cfg.output) = 3 * cfg.charheight
           /\ T = <<65, 10, 66>> => Len(cfg.output) = cfg.charheight

\* "A\n\nB" rendered in paragraph mode on the wide line: the rows of 'A', a block
\* of empty rows, the rows of 'B'
C13_Witness ==
    /\ pc = "idle" /\ calls.render = 1 /\ cfg.Paragraphflag
    /\ cfg.Outputwidth = DEFAULTCOLUMNS
    /\ cfg.Argv[2] = <<65, 10, 10, 66>>
    /\ cfg.output = GlyphA \o <<<<>>, <<>>>> \o GlyphB

\* C15: no row of the rendered output contains the font's hard-blank character:
\* every hard-blank of a finished line, whether it came from a glyph or from a
\* smush result, is written as a space.
C15_NoHardblankInOutput ==
    FontLoaded =>
        \A r \in 1..Len(cfg.output) :
            \A i \in 1..Len(cfg.output[r]) : cfg.output[r][i] # cfg.hardblank

\* two spaces, each two hard-blanks wide, rendered under the hard-blank rule: the
\* hard-blanks that met were smushed into one, and the three are written as spaces
C15_Witness ==
    /\ FontLoaded /\ pc = "idle" /\ calls.render = 1
    /\ HasBit(cfg.Smushmode, SM_HARDBLANK)
    /\ cfg.hardblank = 36
    /\ cfg.Argv[2] = <<32, 32>>
    /\ cfg.output = <<<<32, 32, 32>>, <<32, 32, 32>>>>

\* C18 as stated: in universal smushing (SM_SMUSH set, rule bits 0-5 all clear), for
\* two non-space characters of glyphs of width >= 2, smushem returns the hard-blank
\* whenever one of the two characters is the hard-blank; otherwise it returns the
\* right character when composing left-to-right and the left one when right-to-left.
C18_HardblankWins ==
    (pc = "render" /\ HasBit(cfg.Smushmode, SM_SMUSH) /\ cfg.Smushmode % 64 = 0) =>
        \A ch \in NextChars :
            LET Holds(c) ==
                    (c.previouscharwidth >= 2 /\ c.currcharwidth >= 2) =>
                        \A lch, rch \in {c.hardblank, 124, 95, 47, 92, 40, 120} :
                            smushem(c, lch, rch) =
                                IF lch = c.hardblank \/ rch = c.hardblank THEN c.hardblank
                                ELSE IF c.Right2left = 1 THEN lch
                                ELSE rch
            IN Holds(getletter(cfg, ch))

\* C18, amended: in universal smushing, for two non-space characters of glyphs of
\* width >= 2, when one of the two characters is the hard-blank smushem returns
\* the other one (a visible character wins over the hard-blank; two hard-blanks
\* give the hard-blank); otherwise it returns the right character when composing
\* left-to-right and the left character when composing right-to-left.
C18_HardblankLoses ==
    (pc = "render" /\ HasBit(cfg.Smushmode, SM_SMUSH) /\ cfg.Smushmode % 64 = 0) =>
        \A ch \in NextChars :
            LET Holds(c) ==
                    (c.previouscharwidth >= 2 /\ c.currcharwidth >= 2) =>
                        \A lch, rch \in {c.hardblank, 124, 95, 47, 92, 40, 120} :
                            smushem(c, lch, rch) =
                                IF lch = c.hardblank THEN rch
                                ELSE IF rch = c.hardblank THEN lch
                                ELSE IF c.Right2left = 1 THEN lch
                                ELSE rch
            IN Holds(getletter(cfg, ch))

\* universal smushing, a space of two hard-blanks appended after 'A': in the
\* second row the '_' of 'A' and a hard-blank met, and the '_' is what is left
C18_Witness ==
    /\ pc = "render" /\ cfg.Smushmode = SM_SMUSH /\ cfg.Right2left = 0
    /\ cfg.hardblank = 36
    /\ cfg.inchrline = <<65, 32>>
    /\ cfg.previouscharwidth = 2 /\ cfg.currcharwidth = 2
    /\ cfg.outputline[2] = <<124, 95, 36>>

\* the direction the header of the font file declares: its sixth integer, or
\* left-to-right when the header has none
DeclaredRight2left(name) ==
    IF Len(FontFiles[name].nums) >= 6 /\ FontFiles[name].nums[6] # 0 THEN 1 ELSE 0

\* C28: when direction and justification are left on auto (-1), every LoadFont
\* resolves them from the font being loaded: after loading a right-to-left font
\* and then a left-to-right font on the same Config, text is composed
\* left-to-right and left-justified.  (No Config of SpecLoad sets either option.)
C28_EveryLoadResolvesDirection ==
    [][(LoadFont /\ loaderr' = "") =>
          /\ cfg'.Right2left = DeclaredRight2left(cfg.Fontname)
          /\ cfg'.Justification = 2 * DeclaredRight2left(cfg.Fontname)]_vars

\* the line of the font file that holds the given row of the required glyph o
\* (row 1 is the first), or the empty line when the file ends before it
GlyphLine(name, o, row) ==
    LET idx == FontFiles[name].nums[1] * (o - 32) + row
    IN IF idx <= Len(FontFiles[name].lines) THEN FontFiles[name].lines[idx] ELSE <<>>

\* C24 as stated: when a glyph row is read, after the line ending is removed at
\* most two identical trailing end-mark characters are removed; characters equal
\* to the end-mark that precede those stay part of the row.
C24_AtMostTwoEndmarksRemoved ==
    [][(LoadFont /\ loaderr' = "") =>
          \A o \in {32, 65, 66} : \A row \in 1..cfg'.charheight :
             LET Kept(line, kept) ==
                   /\ kept = SliceTo(line, Len(kept))
                   /\ Len(kept) >= Len(line) - 2
                   /\ \A i \in (Len(kept) + 1)..Len(line) : line[i] = line[Len(line)]
             IN Kept(GlyphLine(cfg.Fontname, o, row), getletter(cfg', o).currchar[row])]_vars

\* C24, amended: when a glyph row is read, after the line ending and the trailing
\* white space are removed, the whole trailing run of characters equal to the last
\* character of the line (the end-mark) is removed, however long it is: the row
\* kept never ends in the end-mark.
C24_WholeEndmarkRunRemoved ==
    [][(LoadFont /\ loaderr' = "") =>
          \A o \in {32, 65, 66} : \A row \in 1..cfg'.charheight :
             LET Kept(line, kept) ==
                   LET marked == {i \in 1..Len(line) : ~IsSpace(line[i])}
                       Marked(n) ==
                         /\ kept = SliceTo(line, Len(kept))
                         /\ Len(kept) < n
                         /\ \A i \in (Len(kept) + 1)..n : line[i] = line[n]
                         /\ Len(kept) > 0 => kept[Len(kept)] # line[n]
                   IN IF marked = {} THEN kept = <<>>
                      ELSE Marked(CHOOSE n \in marked : \A m \in marked : m <= n)
             IN Kept(GlyphLine(cfg.Fontname, o, row), getletter(cfg', o).currchar[row])]_vars

\* the font whose 'A' has the lines "|@@@" and "|@@@@" is loaded: both rows of the
\* glyph are "|"
C24_Witness ==
    /\ FontLoaded /\ cfg.Fontname = "marks" /\ calls.load = 1
    /\ FontFiles.marks.lines[2 * (65 - 32) + 1] = <<124, 64, 64, 64>>
    /\ getletter(cfg, 65).currchar = <<<<124>>, <<124>>>>

\* C21 as stated: an input character with code below 0x20 other than newline, or
\* DEL (127), is ignored: processing it emits nothing and leaves the output line,
\* the input-character buffer, the wrap state and the paragraph end-of-line flag
\* unchanged.
C21_ControlsLeaveAllUnchanged ==
    [][(RenderChar /\ getinchr(cfg).ch \in ((0..31) \ {10}) \cup {127}) =>
          /\ cfg'.output = cfg.output
          /\ cfg'.outputline = cfg.outputline /\ cfg'.outlinelen = cfg.outlinelen
          /\ cfg'.inchrline = cfg.inchrline /\ cfg'.inchrlinelen = cfg.inchrlinelen
          /\ wordbreakmode' = wordbreakmode
          /\ last_was_eol_flag' = last_was_eol_flag]_vars

\* C21, amended: an input character with code 1..31 other than tab, newline, VT,
\* FF and CR, or DEL (127), is ignored: processing it emits nothing and leaves the
\* output line, the input-character buffer and the wrap state unchanged, and it
\* clears the paragraph end-of-line flag.  (Tab is taken as a space and VT, FF, CR
\* as a newline.)
C21_ControlsClearEolFlag ==
    [][(RenderChar /\ getinchr(cfg).ch \in ((1..31) \ {9, 10, 11, 12, 13}) \cup {127}) =>
          /\ cfg'.output = cfg.output
          /\ cfg'.outputline = cfg.outputline /\ cfg'.outlinelen = cfg.outlinelen
          /\ cfg'.inchrline = cfg.inchrline /\ cfg'.inchrlinelen = cfg.inchrlinelen
          /\ wordbreakmode' = wordbreakmode
          /\ ~last_was_eol_flag']_vars

\* "\r\x01\nB" in paragraph mode: the CR was flushed and set the flag, and the
\* control character after it has been read and has cleared the flag
C21_Witness ==
    /\ pc = "render" /\ cfg.Paragraphflag
    /\ cfg.Argv[2] = <<13, 1, 10, 66>>
    /\ cfg.agetmode = 2 /\ ~cfg.getinchr_flag
    /\ ~last_was_eol_flag
    /\ cfg.output = <<<<>>, <<>>>>
    /\ cfg.inchrline = <<>>

----------------------------------------------------------------------------
(* Control files with several range rules between two freeze markers,       *)
(* added to one Config, applied by LoadFont and used by one RenderString    *)

InitMapping ==
    InitOf(Configs({"standard"}, {0}, {-1}, {-1}, SmushOptions({"font"}, {}), {FALSE}))

NextMapping ==
    \/ \E name \in {"chain", "swap", "shift"} : AddControlFile(name)
    \/ LoadFont
    \/ \E text \in {<<65>>, <<66>>, <<65, 66>>} : calls.render = 0 /\ RenderBegin(text)
    \/ RenderChar
    \/ RenderEnd

SpecMapping == InitMapping /\ [][NextMapping]_vars

RECURSIVE SegmentWise(_, _, _)
\* the substitution segment by segment: the commands from i up to the next freeze
\* marker are one segment, the first range rule of the segment that contains ch
\* adds its offset, and the scan goes on after the marker
SegmentWise(list, i, ch) ==
    IF i > Len(list) THEN ch
    ELSE LET markers == {j \in i..Len(list) : list[j].thecommand = 0}
             end == IF markers = {} THEN Len(list) + 1
                    ELSE CHOOSE j \in markers : \A k \in markers : j <= k
             hits == {j \in i..(end - 1) : ch >= list[j].rangelo /\ ch <= list[j].rangehi}
             first == IF hits = {} THEN 0
                      ELSE CHOOSE j \in hits : \A k \in hits : j <= k
         IN SegmentWise(list, end + 1, IF first = 0 THEN ch ELSE ch + list[first].offset)

\* C20: for every accumulated directive list and every input code point c,
\* character substitution applies at most one range rule per freeze-delimited
\* segment, namely the first whose [lo, hi] contains the current value, then
\* resumes scanning at the next freeze marker; when no range rule matches, c is
\* returned unchanged.
C20_FirstMatchPerSegment ==
    \A ch \in 60..70 :
        /\ handlemapping(cfg, ch) = SegmentWise(cfg.commandlist, 1, ch)
        /\ (\A j \in 1..Len(cfg.commandlist) :
                \/ cfg.commandlist[j].thecommand = 0
                \/ ch < cfg.commandlist[j].rangelo
                \/ ch > cfg.commandlist[j].rangehi)
              => handlemapping(cfg, ch) = ch

\* "A" rendered under "65 66 / 66 67 / f / 66 65" applied once: 'A' became 'B' by
\* the first rule, the second rule of the segment was passed over, and the rule
\* after the freeze marker made it 'A' again
C20_Witness ==
    /\ pc = "render" /\ applied = <<"chain">>
    /\ Len(cfg.commandlist) = 5
    /\ cfg.Argv[2] = <<65>>
    /\ cfg.inchrline = <<65>>
    /\ handlemapping(cfg, 66) = 67

----------------------------------------------------------------------------
(* Word wrap: one load, then one RenderString of a text long enough for the *)
(* line to fill, at output widths where one, two or three glyphs fit.  'C'  *)
(* has a glyph without columns in these fonts.                              *)

MaxWrapText == 5    \* the longest text rendered under SpecWrap

WrapTexts ==
    UNION {[1..k -> {65, 32, 67}] \cup [1..k -> {65, 66, 32}] : k \in 0..MaxWrapText}

\* as many 'C' as the input-character buffer holds at the widest of the output
\* widths, then an 'A'
BlankThenA == [i \in 1..(7 * 4 + 100) |-> 67] \o <<65>>

InitWrap ==
    InitOf(Configs({"standard", "rtl"}, {1, 4, 6, 7}, {-1}, {-1},
                   SmushOptions({"font", "fullwidth"}, {}), {FALSE}))

NextWrap ==
    \/ calls.load = 0 /\ LoadFont
    \/ \E text \in WrapTexts \cup {<<65, 10, 65>>, <<65, 32, 66, 65, 66>>, BlankThenA} :
          calls.load = 1 /\ loaderr = "" /\ calls.render = 0 /\ RenderBegin(text)
    \/ RenderChar
    \/ RenderEnd

SpecWrap == InitWrap /\ [][NextWrap]_vars

\* the next input character is a glyph character (not a space, a newline or an
\* ignored control character) and appending it to the current, non-empty line is
\* rejected
RejectedOnLine(g, a) ==
    /\ g.ch > 32 /\ g.ch # 127
    /\ ~a.ok /\ a.cfg.outlinelen # 0

\* C22 as stated: when appending a non-space glyph is rejected and the current line
\* is non-empty, the current line is flushed and the same character is then retried
\* against an empty line.
C22_FlushThenRetryOnEmptyLine ==
    [][RenderChar =>
         LET Step(g) ==
               LET Try(a) ==
                     RejectedOnLine(g, a) =>
                        LET Retry(X) ==
                              /\ X.inchrlinelen = 0 /\ X.outlinelen = 0
                              /\ cfg' = placechar(X, 0, g.ch).cfg
                        IN Retry(printline(a.cfg))
               IN Try(addchar(g.cfg, g.ch))
         IN Step(getinchr(cfg))]_vars

\* C22, amended: when appending a non-space glyph is rejected and the current line
\* is non-empty, one block is emitted and the same character is then retried
\* against what is left: the line is flushed whole and the retry is against an
\* empty line unless the line holds a space after a non-space character; then the
\* line is split at its last space, and the retry is against the characters that
\* came after that space (an empty line only when the line ended in the space).
C22_FlushOrSplitThenRetry ==
    [][RenderChar =>
         LET Step(g) ==
               LET Try(a) ==
                     RejectedOnLine(g, a) =>
                        LET Retry(X) ==
                              /\ Len(X.output) = Len(cfg.output) + cfg.charheight
                              /\ wordbreakmode < 3 => X.inchrlinelen = 0 /\ X.outlinelen = 0
                              /\ wordbreakmode = 3 =>
                                    /\ X.inchrlinelen > 0
                                    /\ X.inchrline[1] # 32
                                    /\ \E k \in 1..a.cfg.inchrlinelen :
                                          /\ a.cfg.inchrline[k] = 32
                                          /\ SliceFrom(SliceTo(a.cfg.inchrline,
                                                               a.cfg.inchrlinelen), k)
                                                = SliceTo(X.inchrline, X.inchrlinelen)
                              /\ cfg' = placechar(X, IF wordbreakmode = 3 THEN 1 ELSE 0,
                                                  g.ch).cfg
                        IN Retry(IF wordbreakmode >= 2 THEN splitline(a.cfg)
                                 ELSE printline(a.cfg))
               IN Try(addchar(g.cfg, g.ch))
         IN Step(getinchr(cfg))]_vars

\* "A AA" at width 6 in full-width mode: the third 'A' was rejected on "A A", the
\* line was split, and the retry put it after the second 'A'
C22_Witness ==
    /\ pc = "render" /\ cfg.Outputwidth = 6 /\ cfg.Right2left = 0
    /\ cfg.Argv[2] = <<65, 32, 65, 65>> /\ cfg.agetmode = 4
    /\ Len(cfg.output) = cfg.charheight
    /\ SliceTo(cfg.inchrline, cfg.inchrlinelen) = <<65, 65>>
    /\ wordbreakmode = 1
\* the line holds a space after a non-space character
HasBreak(line) ==
    \E j, k \in 1..Len(line) : j < k /\ line[j] # 32 /\ line[k] = 32

\* the characters of the line before its last run of spaces
BeforeLastSpaces(line) ==
    LET k == CHOOSE i \in 1..Len(line) :
                line[i] = 32 /\ \A m \in (i + 1)..Len(line) : line[m] # 32
        j == CHOOSE i \in 1..(k - 1) :
                line[i] # 32 /\ \A m \in (i + 1)..k : line[m] = 32
    IN SliceTo(line, j)

\* the characters of the line after its last space
AfterLastSpace(line) ==
    LET k == CHOOSE i \in 1..Len(line) :
                line[i] = 32 /\ \A m \in (i + 1)..Len(line) : line[m] # 32
    IN SliceFrom(line, k)

\* the Config after the block composed from part1 has been emitted and part2 has
\* been made the current line
BrokenAt(c, part1, part2) ==
    addchars(printline(addchars(clearline(c), part1, 1)), part2, 1)

\* what a RenderChar step leaves after the append of ch was rejected and the line
\* became the one of X: the block of X is the next one emitted, and a space is
\* dropped while a glyph character is appended to the line of X, or, when that
\* is rejected as well, follows a block composed from the line of X
ContinuesFrom(X, ch) ==
    /\ SliceTo(cfg'.output, Len(X.output)) = X.output
    /\ ch = 32 => cfg'.output = X.output /\ cfg'.inchrline = X.inchrline
    /\ ch # 32 =>
          \/ cfg'.output = X.output /\ cfg'.inchrline = Append(X.inchrline, ch)
          \/ /\ X.outlinelen # 0
             /\ SliceTo(cfg'.output, Len(X.output) + X.charheight) = printline(X).output

\* C23 as stated: word wrap breaks at the last space: when an append is rejected
\* while the current line holds a space after a non-space character, the block
\* emitted is composed from exactly the input characters before the last run of
\* spaces, the characters after the last space become the start of the next line,
\* and the spaces of that run appear in neither; when the line holds no such space
\* the whole line is emitted (hard break).
C23_RejectedAppendBreaksAtLastSpace ==
    [][RenderChar =>
         LET Step(g) ==
               LET Try(a) ==
                     (g.ch >= 32 /\ g.ch # 127 /\ ~a.ok /\ a.cfg.outlinelen # 0) =>
                        LET Broken(X) ==
                              /\ HasBreak(cfg.inchrline) =>
                                    X.inchrline = AfterLastSpace(cfg.inchrline)
                              /\ ContinuesFrom(X, g.ch)
                        IN Broken(IF HasBreak(cfg.inchrline)
                                  THEN BrokenAt(a.cfg, BeforeLastSpaces(cfg.inchrline),
                                                AfterLastSpace(cfg.inchrline))
                                  ELSE printline(a.cfg))
               IN Try(addchar(g.cfg, g.ch))
         IN Step(getinchr(cfg))]_vars

\* C23, amended: when the append of a non-space character is rejected while the
\* current line holds a space after a non-space character, or the append of a
\* space is rejected while the line ends in such a space, the block emitted is
\* composed from exactly the input characters before the last run of spaces, the
\* characters after the last space become the start of the next line, and the
\* spaces of that run appear in neither; when the line holds no such space, and
\* when a space is rejected on a line that ends in a non-space character, the
\* whole line is emitted.
C23_RejectedGlyphBreaksAtLastSpace ==
    [][RenderChar =>
         LET Step(g) ==
               LET Try(a) ==
                     (g.ch >= 32 /\ g.ch # 127 /\ ~a.ok /\ a.cfg.outlinelen # 0) =>
                        LET Splits(split) ==
                              LET Broken(X) ==
                                    /\ split => X.inchrline = AfterLastSpace(cfg.inchrline)
                                    /\ ContinuesFrom(X, g.ch)
                              IN Broken(IF split
                                        THEN BrokenAt(a.cfg,
                                                      BeforeLastSpaces(cfg.inchrline),
                                                      AfterLastSpace(cfg.inchrline))
                                        ELSE printline(a.cfg))
                        IN Splits(/\ HasBreak(cfg.inchrline)
                                  /\ (g.ch # 32
                                      \/ cfg.inchrline[Len(cfg.inchrline)] = 32))
               IN Try(addchar(g.cfg, g.ch))
         IN Step(getinchr(cfg))]_vars

\* "A  AA" at width 7 in full-width mode: the third 'A' was rejected on "A  A";
\* the block of "A" alone was emitted, and the line now holds the second 'A' and
\* the third, without the two spaces
C23_Witness ==
    /\ pc = "render" /\ cfg.Outputwidth = 7 /\ cfg.Right2left = 0
    /\ cfg.Argv[2] = <<65, 32, 32, 65, 65>> /\ cfg.agetmode = 5
    /\ cfg.output = <<<<124, 32>>, <<124, 95>>>>
    /\ cfg.inchrline = <<65, 65>>
MaxAttempts == 5    \* the append attempts counted for one input character

\* C25: for every input character the retry loop of RenderString ends after at
\* most three append attempts (each rejected attempt flushes or splits the line
\* before the next one), so rendering any finite text terminates: every pass of the
\* outer loop takes one more byte of the text.
C25_AtMostThreeAttempts ==
    /\ [](pc = "render" =>
             LET Next3(g) ==
                   (g.ch >= 32 /\ g.ch # 127) =>
                      attempts(g.cfg, wordbreakmode, g.ch, MaxAttempts) <= 3
             IN Next3(getinchr(cfg)))
    /\ [][RenderChar => /\ cfg.agetmode < Len(cfg.Argv[cfg.Optind + 1])
                         /\ cfg'.agetmode = cfg.agetmode + 1]_vars

\* "C AA" at width 4 in full-width mode, 'C' having no columns: the second 'A' was
\* rejected on "C A", then on "A" after the split, and was accepted by the third
\* attempt on the empty line; two blocks were emitted by that one step
C25_Witness ==
    /\ pc = "render" /\ cfg.Outputwidth = 4 /\ cfg.Right2left = 0
    /\ cfg.Argv[2] = <<67, 32, 65, 65>> /\ cfg.agetmode = 4
    /\ Len(cfg.output) = 2 * cfg.charheight
    /\ cfg.inchrline = <<65>>
    /\ wordbreakmode = 1
RECURSIVE ImagesOf(_, _)
\* the characters whose glyph images make up the sequence s of the visible cells
\* of a row, in the order of the cells: 'B' shows "/|" ("|/" read from the right,
\* when mirrored) and 'A' a single "|"
ImagesOf(s, mirrored) ==
    IF s = <<>> THEN <<>>
    ELSE IF ~mirrored /\ s[1] = 47 THEN <<66>> \o ImagesOf(SliceFrom(s, 2), mirrored)
    ELSE IF mirrored /\ Len(s) >= 2 /\ s[2] = 47
    THEN <<66>> \o ImagesOf(SliceFrom(s, 2), mirrored)
    ELSE <<65>> \o ImagesOf(Tail(s), mirrored)

RECURSIVE Reversed(_)
Reversed(s) == IF s = <<>> THEN <<>> ELSE Append(Reversed(Tail(s)), Head(s))

RECURSIVE Shown(_, _, _, _)
\* the characters shown by the blocks of height rows from row i of the output on,
\* each block read in the writing direction
Shown(out, i, height, rtl) ==
    IF i > Len(out) THEN <<>>
    ELSE LET Cells(s) == ImagesOf(IF rtl THEN Reversed(s) ELSE s, rtl)
         IN Cells(SelectSeq(out[i], LAMBDA x : x # 32))
            \o Shown(out, i + height, height, rtl)

\* RenderString has returned, and it composed in full-width mode
RenderedFullWidth ==
    /\ pc = "idle" /\ calls.render = 1
    /\ cfg.Smushmode = 0 /\ cfg.Smushoverride = SMO_YES

\* every re-append of a splitline on the line of c is accepted
ReappendsAccepted(c) ==
    LET Parts(part1, part2) ==
          /\ addchars(clearline(c), part1, 1).inchrline = part1
          /\ splitline(c).inchrline = part2
    IN Parts(BeforeLastSpaces(c.inchrline), AfterLastSpace(c.inchrline))

C29_EmptyLineHasEmptyBuffer ==
    /\ [](pc = "render" => (cfg.outlinelen = 0 => cfg.inchrlinelen = 0))
    /\ [][RenderChar =>
            LET Step(g) ==
                  LET Try(a) ==
                        (g.ch >= 32 /\ g.ch # 127 /\ wordbreakmode # -1
                                    /\ g.cfg.outlinelen = 0 /\ ~a.ok)
                           => a.cfg.currcharwidth > a.cfg.outlinelenlimit
                  IN Try(addchar(g.cfg, g.ch))
            IN Step(getinchr(cfg))]_vars
----------------------------------------------------------------------------
(* The decoding modes: control files that select DBCS, UTF-8, HZ or         *)
(* Shift-JIS, then one RenderString of a text that may end inside an escape *)
(* or multi-byte sequence.                                                  *)

\* ESC, 'A', '{', '~', a DBCS and Shift-JIS lead byte, a UTF-8 continuation byte
\* and a UTF-8 lead byte
DecodeBytes == {27, 65, 123, 126, 129, 169, 195}

InitDecode ==
    InitOf(Configs({"standard"}, {0}, {-1}, {-1}, SmushOptions({"fullwidth"}, {}),
                   {FALSE}))

NextDecode ==
    \/ \E name \in {"dbcs", "utf8", "hz", "sjis"} : calls.load = 0 /\ AddControlFile(name)
    \/ calls.load = 0 /\ LoadFont
    \/ \E text \in UNION {[1..k -> DecodeBytes] : k \in 1..2} \cup {<<126, 123, 65>>} :
          calls.render = 0 /\ RenderBegin(text)
    \/ RenderChar
    \/ RenderEnd

SpecDecode == InitDecode /\ [][NextDecode]_vars

\* C30: in every decoding mode (ISO-2022, DBCS, UTF-8, HZ, Shift-JIS), once the
\* input bytes are exhausted the decoder returns end-of-input and keeps returning
\* it; the end-of-input marker is never combined into a returned code point, so an
\* input that ends in the middle of an escape or multi-byte sequence yields no
\* character that is not made of input bytes.  (Agetchar sets agetmode to -1 when
\* it returns the end-of-input marker.)
C30_EndOfInputNeverCombined ==
    (pc = "render" /\ ~cfg.getinchr_flag) =>
        LET Got(g) == g.cfg.agetmode = -1 => g.ch = -1
        IN Got(getinchr(cfg))
====
